---------------------------- MODULE Spec2Model ----------------------------
(***************************************************************************)
(* Model of scripts/fourier_piston.py: the analytic Fourier coefficients   *)
(* of a periodic piecewise-constant function and the reconstruction of the *)
(* truncated series; of the playback and watch loops of                    *)
(* vispy/visualizations.py; and of the snapshot readers of                 *)
(* scripts/plot_field_xt.py and scripts/plot_pres0.py.                     *)
(*                                                                         *)
(* Numbers.  The program computes in IEEE 754 binary64 (Python floats).    *)
(* The model computes the same doubles, bit for bit: every +, -, *, / and  *)
(* % is the exact result rounded to 53 significant bits, ties to even, and *)
(* math.sin and math.cos are the values the C library returns on the       *)
(* arguments the model reaches.                                            *)
(***************************************************************************)
EXTENDS Integers, Sequences, FiniteSets, TLC

(***************************************************************************)
(* Bounds of the model.                                                    *)
(***************************************************************************)
MaxN == 2        \* harmonic orders N range over -MaxN..MaxN
MaxK == 1        \* sample times are shifted by k periods, k in -MaxK..MaxK
MaxSamples == 13 \* --samples ranges over -1..MaxSamples
MaxClock == 2    \* modification times range over 1..MaxClock
MaxPasses == 1   \* completed playback passes are counted up to MaxPasses
MaxWrites == 3   \* the simulation writes files at most MaxWrites times

Min(x, y) == IF x < y THEN x ELSE y

Max(x, y) == IF x < y THEN y ELSE x


(***************************************************************************)
(* Natural numbers of any size, as sequences of limbs, least first.        *)
(***************************************************************************)
(***************************************************************************)
(* Natural numbers of any size: sequences of limbs in base 2^14, the least *)
(* significant first, without a zero as the last limb; <<>> is 0.          *)
(***************************************************************************)
LimbBits == 14
Base == 16384

RECURSIVE Pow2(_)
Pow2(k) == IF k = 0 THEN 1 ELSE 2 * Pow2(k - 1)

RECURSIVE Trim(_)
Trim(x) ==
    IF x = <<>> THEN x
    ELSE IF x[Len(x)] # 0 THEN x
    ELSE Trim(SubSeq(x, 1, Len(x) - 1))

RECURSIVE Nat2Big(_)
Nat2Big(i) == IF i = 0 THEN <<>> ELSE <<i % Base>> \o Nat2Big(i \div Base)

Limb(x, i) == IF 1 <= i /\ i <= Len(x) THEN x[i] ELSE 0

\* the number with the digits x[i..], any integers, plus the carry c
RECURSIVE Carry(_, _, _)
Carry(x, i, c) ==
    IF i > Len(x) THEN Nat2Big(c)
    ELSE <<(x[i] + c) % Base>> \o Carry(x, i + 1, (x[i] + c) \div Base)

BigAdd(x, y) ==
    Carry([i \in 1..Max(Len(x), Len(y)) |-> Limb(x, i) + Limb(y, i)], 1, 0)

\* x - y for x >= y
BigSub(x, y) ==
    Trim(Carry([i \in 1..Len(x) |-> x[i] - Limb(y, i)], 1, 0))

\* -1, 0, 1 as x <, =, > y, comparing from limb i down
RECURSIVE CmpFrom(_, _, _)
CmpFrom(x, y, i) ==
    IF i = 0 THEN 0
    ELSE IF x[i] < y[i] THEN -1
    ELSE IF x[i] > y[i] THEN 1
    ELSE CmpFrom(x, y, i - 1)

BigCmp(x, y) ==
    IF Len(x) < Len(y) THEN -1
    ELSE IF Len(x) > Len(y) THEN 1
    ELSE CmpFrom(x, y, Len(x))

BigMulSmall(x, q) == Trim(Carry([i \in 1..Len(x) |-> x[i] * q], 1, 0))

\* the sum of x[i] * y[k + 1 - i] for i from lo to hi
RECURSIVE Column(_, _, _, _, _)
Column(x, y, k, lo, hi) ==
    IF lo > hi THEN 0
    ELSE x[lo] * y[k + 1 - lo] + Column(x, y, k, lo + 1, hi)

BigMul(x, y) ==
    IF x = <<>> \/ y = <<>> THEN <<>>
    ELSE Carry([k \in 1..(Len(x) + Len(y) - 1) |->
                   Column(x, y, k, Max(1, k + 1 - Len(y)), Min(k, Len(x)))], 1, 0)

\* x * 2^n
BigShl(x, n) ==
    IF x = <<>> THEN x
    ELSE [i \in 1..(n \div LimbBits) |-> 0]
         \o Carry([i \in 1..Len(x) |-> x[i] * Pow2(n % LimbBits)], 1, 0)

\* floor(x / 2^n)
BigShr(x, n) ==
    Trim([i \in 1..(Len(x) - (n \div LimbBits)) |->
             Limb(x, i + (n \div LimbBits)) \div Pow2(n % LimbBits)
             + (Limb(x, i + 1 + (n \div LimbBits)) % Pow2(n % LimbBits))
                 * Pow2(LimbBits - (n % LimbBits))])

\* x mod 2^n
BigLow(x, n) ==
    Trim([i \in 1..Min(Len(x), (n \div LimbBits) + 1) |->
             IF i <= (n \div LimbBits) THEN x[i] ELSE x[i] % Pow2(n % LimbBits)])

\* the number of bits of a limb, and of a number
RECURSIVE Bits(_)
Bits(d) == IF d = 0 THEN 0 ELSE 1 + Bits(d \div 2)

BitLen(x) == IF x = <<>> THEN 0 ELSE (Len(x) - 1) * LimbBits + Bits(x[Len(x)])

\* the number of zero bits at the low end of a limb d # 0, of a number x # 0
RECURSIVE LowZeros(_)
LowZeros(d) == IF d % 2 = 1 THEN 0 ELSE 1 + LowZeros(d \div 2)

RECURSIVE TrailingZeros(_, _)
TrailingZeros(x, i) ==
    IF x[i] = 0 THEN LimbBits + TrailingZeros(x, i + 1) ELSE LowZeros(x[i])

\* the greatest q <= guess with q * d <= r
RECURSIVE DivDigit(_, _, _)
DivDigit(r, d, q) ==
    IF BigCmp(BigMulSmall(d, q), r) > 0 THEN DivDigit(r, d, q - 1) ELSE q

\* the quotient digit estimated from the two highest limbs of r and the
\* highest limb of d, which is at least Base / 2
Guess(r, d) ==
    Min(Base - 1,
        (Limb(r, Len(d) + 1) * Base + Limb(r, Len(d))) \div d[Len(d)])

DivAcc(qr, d, r1, q1) ==
    [q |-> <<q1>> \o qr.q, r |-> BigSub(r1, BigMulSmall(d, q1))]

\* one step of the long division: the remainder so far with the limb xi
\* appended below it, divided by d
DivStep(qr, d, xi) ==
    IF qr.r = <<>> /\ xi = 0 THEN [q |-> <<0>> \o qr.q, r |-> <<>>]
    ELSE DivAcc(qr, d, Trim(<<xi>> \o qr.r),
                DivDigit(Trim(<<xi>> \o qr.r), d, Guess(Trim(<<xi>> \o qr.r), d)))

\* long division of the limbs x[i..] by d, from the highest limb down
RECURSIVE DivLoop(_, _, _)
DivLoop(x, d, i) ==
    IF i > Len(x) THEN [q |-> <<>>, r |-> <<>>]
    ELSE DivStep(DivLoop(x, d, i + 1), d, x[i])

\* quotient and remainder of x by d # 0, both scaled by 2^s so that the
\* highest limb of d is at least Base / 2
DivScaled(x, d, s) ==
    DivLoop(BigShl(x, s), BigShl(d, s), 1)

DivUnscale(qr, s) == [q |-> Trim(qr.q), r |-> BigShr(qr.r, s)]

BigDivMod(x, d) ==
    DivUnscale(DivScaled(x, d, LimbBits - Bits(d[Len(d)])),
               LimbBits - Bits(d[Len(d)]))

(***************************************************************************)
(* IEEE 754 binary64 numbers: sgn * man * 2^exp with man odd, or man = 0.  *)
(* Every operation rounds its exact result to 53 significant bits, ties to *)
(* even.  -0.0 is not told from 0.0, and the exponent range of the format  *)
(* is not modelled: the numbers of the model stay far from its ends.       *)
(***************************************************************************)
Precision == 53

Zero == [sgn |-> 1, man |-> <<>>, exp |-> 0]

IsZero(x) == x.man = <<>>

\* sgn * m * 2^e, with the zero bits at the low end of m moved into the
\* exponent
Normal(s, m, e) ==
    IF m = <<>> THEN Zero
    ELSE [sgn |-> s, man |-> BigShr(m, TrailingZeros(m, 1)),
          exp |-> e + TrailingZeros(m, 1)]

\* m cut to its highest 53 bits, drop > 0 being the number of bits cut:
\* up when the first bit cut is 1 and a lower bit or the last bit kept is 1
RoundCut(s, m, e, drop) ==
    IF /\ BigLow(BigShr(m, drop - 1), 1) # <<>>
       /\ (BigLow(m, drop - 1) # <<>> \/ BigLow(BigShr(m, drop), 1) # <<>>)
    THEN Normal(s, BigAdd(BigShr(m, drop), <<1>>), e + drop)
    ELSE Normal(s, BigShr(m, drop), e + drop)

Round(s, m, e) ==
    IF BitLen(m) <= Precision THEN Normal(s, m, e)
    ELSE RoundCut(s, m, e, BitLen(m) - Precision)

Int2Num(i) == Normal(IF i < 0 THEN -1 ELSE 1, Nat2Big(IF i < 0 THEN -i ELSE i), 0)

Neg(x) == IF x.man = <<>> THEN x ELSE [x EXCEPT !.sgn = -x.sgn]

\* a real number sgn * man * 2^exp of any precision, rounded to a double
Rounded(x) == Round(x.sgn, x.man, x.exp)

\* the exact sum of s * m and t * n, both in units of 2^e
SignedSum(s, m, t, n, e) ==
    IF s = t THEN Normal(s, BigAdd(m, n), e)
    ELSE IF BigCmp(m, n) >= 0 THEN Normal(s, BigSub(m, n), e)
    ELSE Normal(t, BigSub(n, m), e)

\* the exact sum of x and y for x.exp >= y.exp
SumOrdered(x, y) ==
    SignedSum(x.sgn, BigShl(x.man, x.exp - y.exp), y.sgn, y.man, y.exp)

\* the real number x + y, not rounded
AddExact(x, y) ==
    IF IsZero(x) THEN y
    ELSE IF IsZero(y) THEN x
    ELSE IF x.exp >= y.exp THEN SumOrdered(x, y) ELSE SumOrdered(y, x)

\* the real number x * y, not rounded
MulExact(x, y) ==
    IF IsZero(x) \/ IsZero(y) THEN Zero
    ELSE Normal(x.sgn * y.sgn, BigMul(x.man, y.man), x.exp + y.exp)

Mul(x, y) == Rounded(MulExact(x, y))

\* x + y for x.exp >= y.exp, both nonzero; a y that lies more than FarBits
\* bits below the last bit of x acts on the rounding by its sign alone
FarBits == 2 * Precision + 8

AddOrdered(x, y) ==
    IF x.exp - y.exp > FarBits + Precision
    THEN Rounded(SignedSum(x.sgn, BigShl(x.man, FarBits), y.sgn, <<1>>,
                           x.exp - FarBits))
    ELSE Rounded(SumOrdered(x, y))

Add(x, y) ==
    IF IsZero(x) THEN y
    ELSE IF IsZero(y) THEN x
    ELSE IF x.exp >= y.exp THEN AddOrdered(x, y) ELSE AddOrdered(y, x)

Sub(x, y) == Add(x, Neg(y))

\* the quotient of m * 2^k by n with a last bit that tells whether the
\* division left a remainder
Sticky(qr) == BigAdd(BigShl(qr.q, 1), IF qr.r = <<>> THEN <<>> ELSE <<1>>)

DivBits(x, y, k) ==
    Round(x.sgn * y.sgn, Sticky(BigDivMod(BigShl(x.man, k), y.man)),
          x.exp - y.exp - k - 1)

\* x / y for y # 0
Div(x, y) ==
    IF IsZero(x) THEN Zero
    ELSE DivBits(x, y, Precision + 3 + BitLen(y.man) - BitLen(x.man))

Sgn(x) == IF IsZero(x) THEN 0 ELSE x.sgn

\* -1, 0, 1 as |x| <, =, > |y| for x and y not zero: by the position of the
\* highest bit, then by the mantissas in units of 2^e, e the lesser exponent
CmpMagnitude(x, y) ==
    IF BitLen(x.man) + x.exp < BitLen(y.man) + y.exp THEN -1
    ELSE IF BitLen(x.man) + x.exp > BitLen(y.man) + y.exp THEN 1
    ELSE BigCmp(BigShl(x.man, x.exp - Min(x.exp, y.exp)),
                BigShl(y.man, y.exp - Min(x.exp, y.exp)))

\* -1, 0, 1 as x <, =, > y
Cmp(x, y) ==
    IF Sgn(x) < Sgn(y) THEN -1
    ELSE IF Sgn(x) > Sgn(y) THEN 1
    ELSE IF Sgn(x) = 0 THEN 0
    ELSE Sgn(x) * CmpMagnitude(x, y)

Less(x, y) == Cmp(x, y) < 0

LessEq(x, y) == Cmp(x, y) <= 0

\* C's fmod(x, y) for y # 0, exact: the remainder of |x| by |y| with the
\* sign of x, both in units of 2^e with e the lesser exponent
FmodAt(x, y, e) ==
    Normal(x.sgn,
           BigDivMod(BigShl(x.man, x.exp - e), BigShl(y.man, y.exp - e)).r, e)

Fmod(x, y) ==
    IF IsZero(x) THEN Zero
    ELSE IF CmpMagnitude(x, y) < 0 THEN x
    ELSE FmodAt(x, y, Min(x.exp, y.exp))

\* Python's x % y on floats, y # 0: fmod, then y added when the remainder
\* is not zero and its sign is not that of y
FloatModAdjust(r, y) == IF IsZero(r) \/ r.sgn = y.sgn THEN r ELSE Add(r, y)

FloatMod(x, y) == FloatModAdjust(Fmod(x, y), y)

(***************************************************************************)
(* Float literals of the program.                                          *)
(***************************************************************************)
Two == Int2Num(2)

\* math.pi = 3.141592653589793
math_pi == [sgn |-> 1, man |-> <<1443, 10786, 1014, 201>>, exp |-> -48]

(***************************************************************************)
(* math.sin and math.cos.  The C library computes them; the model holds    *)
(* the doubles it returns on every argument w * t the program forms on the *)
(* configurations, orders and times below.                                 *)
(***************************************************************************)
\* x :> math.sin(x)
SinValues ==
    ([sgn |-> -1, man |-> <<13603, 15871, 16092, 753>>, exp |-> -43] :> [sgn |-> 1, man |-> <<2851, 8134, 7710, 1553>>, exp |-> -97])
    @@ ([sgn |-> -1, man |-> <<12213, 7423, 15947, 1130>>, exp |-> -44] :> [sgn |-> 1, man |-> <<723, 16037, 13494, 1128>>, exp |-> -100])
    @@ ([sgn |-> -1, man |-> <<7215, 4778, 5073, 1005>>, exp |-> -44] :> [sgn |-> 1, man |-> <<13065, 16229, 15099, 1411>>, exp |-> -99])
    @@ ([sgn |-> -1, man |-> <<10127, 2943, 7537, 1696>>, exp |-> -45] :> [sgn |-> 1, man |-> <<1>>, exp |-> 0])
    @@ ([sgn |-> -1, man |-> <<13603, 15871, 16092, 753>>, exp |-> -44] :> [sgn |-> 1, man |-> <<2851, 8134, 7710, 1553>>, exp |-> -98])
    @@ ([sgn |-> -1, man |-> <<12213, 7423, 15947, 1130>>, exp |-> -45] :> [sgn |-> -1, man |-> <<723, 16037, 13494, 1128>>, exp |-> -101])
    @@ ([sgn |-> -1, man |-> <<7215, 4778, 5073, 1005>>, exp |-> -45] :> [sgn |-> 1, man |-> <<13065, 16229, 15099, 1411>>, exp |-> -100])
    @@ ([sgn |-> -1, man |-> <<13603, 15871, 16092, 753>>, exp |-> -45] :> [sgn |-> 1, man |-> <<2851, 8134, 7710, 1553>>, exp |-> -99])
    @@ ([sgn |-> -1, man |-> <<12213, 7423, 15947, 1130>>, exp |-> -46] :> [sgn |-> -1, man |-> <<1>>, exp |-> 0])
    @@ ([sgn |-> -1, man |-> <<7215, 4778, 5073, 1005>>, exp |-> -46] :> [sgn |-> 1, man |-> <<13065, 16229, 15099, 1411>>, exp |-> -101])
    @@ ([sgn |-> -1, man |-> <<13603, 15871, 16092, 753>>, exp |-> -46] :> [sgn |-> -1, man |-> <<2851, 8134, 7710, 1553>>, exp |-> -100])
    @@ ([sgn |-> -1, man |-> <<7215, 4778, 5073, 1005>>, exp |-> -47] :> [sgn |-> 1, man |-> <<13065, 16229, 15099, 1411>>, exp |-> -102])
    @@ ([sgn |-> -1, man |-> <<7215, 4778, 5073, 1005>>, exp |-> -48] :> [sgn |-> -1, man |-> <<13065, 16229, 15099, 1411>>, exp |-> -103])
    @@ ([sgn |-> 1, man |-> <<>>, exp |-> 0] :> [sgn |-> 1, man |-> <<>>, exp |-> 0])
    @@ ([sgn |-> 1, man |-> <<15679, 9553, 5857, 148>>, exp |-> -115] :> [sgn |-> 1, man |-> <<15679, 9553, 5857, 148>>, exp |-> -115])
    @@ ([sgn |-> 1, man |-> <<15679, 9553, 5857, 148>>, exp |-> -114] :> [sgn |-> 1, man |-> <<15679, 9553, 5857, 148>>, exp |-> -114])
    @@ ([sgn |-> 1, man |-> <<14269, 12277, 1188, 445>>, exp |-> -115] :> [sgn |-> 1, man |-> <<14269, 12277, 1188, 445>>, exp |-> -115])
    @@ ([sgn |-> 1, man |-> <<15679, 9553, 5857, 148>>, exp |-> -113] :> [sgn |-> 1, man |-> <<15679, 9553, 5857, 148>>, exp |-> -113])
    @@ ([sgn |-> 1, man |-> <<3137, 6233, 14634, 42>>, exp |-> -54] :> [sgn |-> 1, man |-> <<14611, 2539, 9137, 1372>>, exp |-> -59])
    @@ ([sgn |-> 1, man |-> <<12591, 8548, 9385, 171>>, exp |-> -56] :> [sgn |-> 1, man |-> <<14955, 2539, 9137, 1372>>, exp |-> -59])
    @@ ([sgn |-> 1, man |-> <<2509, 2854, 9548, 1372>>, exp |-> -59] :> [sgn |-> 1, man |-> <<11243, 12583, 7310, 21>>, exp |-> -53])
    @@ ([sgn |-> 1, man |-> <<9141, 713, 2387, 343>>, exp |-> -57] :> [sgn |-> 1, man |-> <<16327, 2539, 9137, 1372>>, exp |-> -59])
    @@ ([sgn |-> 1, man |-> <<3137, 6233, 14634, 42>>, exp |-> -53] :> [sgn |-> 1, man |-> <<12427, 63, 14583, 42>>, exp |-> -53])
    @@ ([sgn |-> 1, man |-> <<12591, 8548, 9385, 171>>, exp |-> -55] :> [sgn |-> 1, man |-> <<599, 255, 9180, 171>>, exp |-> -55])
    @@ ([sgn |-> 1, man |-> <<2509, 2854, 9548, 1372>>, exp |-> -58] :> [sgn |-> 1, man |-> <<4877, 2040, 7904, 1372>>, exp |-> -58])
    @@ ([sgn |-> 1, man |-> <<9141, 713, 2387, 343>>, exp |-> -56] :> [sgn |-> 1, man |-> <<1541, 510, 1976, 343>>, exp |-> -56])
    @@ ([sgn |-> 1, man |-> <<9411, 2315, 11135, 128>>, exp |-> -54] :> [sgn |-> 1, man |-> <<5983, 14301, 4386, 1029>>, exp |-> -57])
    @@ ([sgn |-> 1, man |-> <<5005, 9262, 11772, 514>>, exp |-> -56] :> [sgn |-> 1, man |-> <<15043, 1470, 2697, 32>>, exp |-> -52])
    @@ ([sgn |-> 1, man |-> <<5037, 9262, 11772, 514>>, exp |-> -56] :> [sgn |-> 1, man |-> <<15045, 1470, 2697, 32>>, exp |-> -52])
    @@ ([sgn |-> 1, man |-> <<11039, 2140, 7161, 1029>>, exp |-> -57] :> [sgn |-> 1, man |-> <<7269, 14301, 4386, 1029>>, exp |-> -57])
    @@ ([sgn |-> 1, man |-> <<3137, 6233, 14634, 42>>, exp |-> -52] :> [sgn |-> 1, man |-> <<12949, 6687, 2972, 1372>>, exp |-> -57])
    @@ ([sgn |-> 1, man |-> <<12591, 8548, 9385, 171>>, exp |-> -54] :> [sgn |-> 1, man |-> <<15611, 1671, 743, 343>>, exp |-> -55])
    @@ ([sgn |-> 1, man |-> <<2509, 2854, 9548, 1372>>, exp |-> -57] :> [sgn |-> 1, man |-> <<13377, 6687, 2972, 1372>>, exp |-> -57])
    @@ ([sgn |-> 1, man |-> <<9141, 713, 2387, 343>>, exp |-> -55] :> [sgn |-> 1, man |-> <<14663, 6687, 2972, 1372>>, exp |-> -57])
    @@ ([sgn |-> 1, man |-> <<15411, 13980, 11453, 321>>, exp |-> -53] :> [sgn |-> 1, man |-> <<4961, 7841, 8374, 1281>>, exp |-> -55])
    @@ ([sgn |-> 1, man |-> <<10119, 11987, 3479, 40>>, exp |-> -50] :> [sgn |-> 1, man |-> <<4981, 7841, 8374, 1281>>, exp |-> -55])
    @@ ([sgn |-> 1, man |-> <<12517, 6771, 13047, 1286>>, exp |-> -55] :> [sgn |-> 1, man |-> <<10685, 3920, 12379, 640>>, exp |-> -54])
    @@ ([sgn |-> 1, man |-> <<3859, 7591, 6959, 80>>, exp |-> -51] :> [sgn |-> 1, man |-> <<5361, 10152, 6189, 320>>, exp |-> -53])
    @@ ([sgn |-> 1, man |-> <<15411, 13980, 11453, 321>>, exp |-> -52] :> [sgn |-> 1, man |-> <<14927, 14127, 7100, 316>>, exp |-> -52])
    @@ ([sgn |-> 1, man |-> <<10119, 11987, 3479, 40>>, exp |-> -49] :> [sgn |-> 1, man |-> <<10575, 7359, 12019, 1265>>, exp |-> -54])
    @@ ([sgn |-> 1, man |-> <<12517, 6771, 13047, 1286>>, exp |-> -54] :> [sgn |-> 1, man |-> <<14933, 14127, 7100, 316>>, exp |-> -52])
    @@ ([sgn |-> 1, man |-> <<3859, 7591, 6959, 80>>, exp |-> -50] :> [sgn |-> 1, man |-> <<10651, 7359, 12019, 1265>>, exp |-> -54])
    @@ ([sgn |-> 1, man |-> <<13465, 9174, 1593, 965>>, exp |-> -53] :> [sgn |-> 1, man |-> <<12019, 5769, 12657, 929>>, exp |-> -53])
    @@ ([sgn |-> 1, man |-> <<13973, 3194, 10439, 120>>, exp |-> -50] :> [sgn |-> 1, man |-> <<8815, 7254, 10353, 3>>, exp |-> -45])
    @@ ([sgn |-> 1, man |-> <<11563, 6389, 4494, 241>>, exp |-> -51] :> [sgn |-> 1, man |-> <<7105, 5538, 7260, 232>>, exp |-> -51])
    @@ ([sgn |-> 1, man |-> <<10697, 1965, 3187, 1930>>, exp |-> -54] :> [sgn |-> 1, man |-> <<14235, 11076, 14520, 464>>, exp |-> -52])
    @@ ([sgn |-> 1, man |-> <<13157, 8373, 5411, 1072>>, exp |-> -53] :> [sgn |-> 1, man |-> <<16383, 16383, 16383, 2047>>, exp |-> -54])
    @@ ([sgn |-> 1, man |-> <<15411, 13980, 11453, 321>>, exp |-> -51] :> [sgn |-> 1, man |-> <<11559, 2282, 14616, 601>>, exp |-> -52])
    @@ ([sgn |-> 1, man |-> <<10119, 11987, 3479, 40>>, exp |-> -48] :> [sgn |-> 1, man |-> <<11567, 2282, 14616, 601>>, exp |-> -52])
    @@ ([sgn |-> 1, man |-> <<12517, 6771, 13047, 1286>>, exp |-> -53] :> [sgn |-> 1, man |-> <<11569, 2282, 14616, 601>>, exp |-> -52])
    @@ ([sgn |-> 1, man |-> <<3859, 7591, 6959, 80>>, exp |-> -49] :> [sgn |-> 1, man |-> <<11599, 2282, 14616, 601>>, exp |-> -52])
    @@ ([sgn |-> 1, man |-> <<13157, 8373, 5411, 1072>>, exp |-> -52] :> [sgn |-> 1, man |-> <<9813, 4272, 13271, 886>>, exp |-> -52])
    @@ ([sgn |-> 1, man |-> <<1443, 10786, 1014, 201>>, exp |-> -49] :> [sgn |-> 1, man |-> <<1>>, exp |-> 0])
    @@ ([sgn |-> 1, man |-> <<13157, 8373, 5411, 1072>>, exp |-> -51] :> [sgn |-> 1, man |-> <<3243, 8545, 10158, 1773>>, exp |-> -53])
    @@ ([sgn |-> 1, man |-> <<10271, 3185, 3382, 670>>, exp |-> -50] :> [sgn |-> 1, man |-> <<3, 0, 0, 1024>>, exp |-> -53])
    @@ ([sgn |-> 1, man |-> <<4159, 6371, 6764, 1340>>, exp |-> -51] :> [sgn |-> 1, man |-> <<16383, 16383, 16383, 2047>>, exp |-> -54])
    @@ ([sgn |-> 1, man |-> <<1443, 10786, 1014, 201>>, exp |-> -48] :> [sgn |-> 1, man |-> <<7175, 3153, 8803, 1129>>, exp |-> -105])
    @@ ([sgn |-> 1, man |-> <<2545, 2366, 9470, 1876>>, exp |-> -51] :> [sgn |-> -1, man |-> <<16379, 16383, 16383, 2047>>, exp |-> -54])
    @@ ([sgn |-> 1, man |-> <<1273, 1183, 4735, 938>>, exp |-> -50] :> [sgn |-> -1, man |-> <<1, 0, 0, 1024>>, exp |-> -53])
    @@ ([sgn |-> 1, man |-> <<13157, 8373, 5411, 1072>>, exp |-> -50] :> [sgn |-> -1, man |-> <<2453, 13356, 11509, 221>>, exp |-> -50])
    @@ ([sgn |-> 1, man |-> <<4329, 15974, 3043, 603>>, exp |-> -49] :> [sgn |-> -1, man |-> <<1>>, exp |-> 0])
    @@ ([sgn |-> 1, man |-> <<10271, 3185, 3382, 670>>, exp |-> -49] :> [sgn |-> -1, man |-> <<9815, 4272, 13271, 886>>, exp |-> -52])
    @@ ([sgn |-> 1, man |-> <<4159, 6371, 6764, 1340>>, exp |-> -50] :> [sgn |-> -1, man |-> <<9813, 4272, 13271, 886>>, exp |-> -52])
    @@ ([sgn |-> 1, man |-> <<16043, 13561, 7440, 1474>>, exp |-> -50] :> [sgn |-> -1, man |-> <<1, 0, 0, 256>>, exp |-> -51])
    @@ ([sgn |-> 1, man |-> <<8903, 12574, 2318, 784>>, exp |-> -49] :> [sgn |-> -1, man |-> <<5367, 10152, 6189, 320>>, exp |-> -53])
    @@ ([sgn |-> 1, man |-> <<1425, 8765, 4637, 1568>>, exp |-> -50] :> [sgn |-> -1, man |-> <<10687, 3920, 12379, 640>>, exp |-> -54])
    @@ ([sgn |-> 1, man |-> <<8905, 12574, 2318, 784>>, exp |-> -49] :> [sgn |-> -1, man |-> <<10671, 3920, 12379, 640>>, exp |-> -54])
    @@ ([sgn |-> 1, man |-> <<1443, 10786, 1014, 201>>, exp |-> -47] :> [sgn |-> -1, man |-> <<7175, 3153, 8803, 1129>>, exp |-> -104])
    @@ ([sgn |-> 1, man |-> <<2545, 2366, 9470, 1876>>, exp |-> -50] :> [sgn |-> 1, man |-> <<2453, 13356, 11509, 221>>, exp |-> -50])
    @@ ([sgn |-> 1, man |-> <<1273, 1183, 4735, 938>>, exp |-> -49] :> [sgn |-> 1, man |-> <<4907, 10328, 6635, 443>>, exp |-> -51])
    @@ ([sgn |-> 1, man |-> <<7215, 4778, 5073, 1005>>, exp |-> -49] :> [sgn |-> 1, man |-> <<1>>, exp |-> 0])
    @@ ([sgn |-> 1, man |-> <<13157, 8373, 5411, 1072>>, exp |-> -49] :> [sgn |-> 1, man |-> <<3247, 8545, 10158, 1773>>, exp |-> -53])
    @@ ([sgn |-> 1, man |-> <<4329, 15974, 3043, 603>>, exp |-> -48] :> [sgn |-> 1, man |-> <<1285, 6461, 2506, 847>>, exp |-> -103])
    @@ ([sgn |-> 1, man |-> <<10271, 3185, 3382, 670>>, exp |-> -48] :> [sgn |-> -1, man |-> <<3235, 8545, 10158, 1773>>, exp |-> -53])
    @@ ([sgn |-> 1, man |-> <<4159, 6371, 6764, 1340>>, exp |-> -49] :> [sgn |-> -1, man |-> <<3243, 8545, 10158, 1773>>, exp |-> -53])
    @@ ([sgn |-> 1, man |-> <<10101, 9966, 7102, 1407>>, exp |-> -49] :> [sgn |-> -1, man |-> <<1>>, exp |-> 0])
    @@ ([sgn |-> 1, man |-> <<16043, 13561, 7440, 1474>>, exp |-> -49] :> [sgn |-> -1, man |-> <<3247, 8545, 10158, 1773>>, exp |-> -53])
    @@ ([sgn |-> 1, man |-> <<8903, 12574, 2318, 784>>, exp |-> -48] :> [sgn |-> -1, man |-> <<10675, 7359, 12019, 1265>>, exp |-> -54])
    @@ ([sgn |-> 1, man |-> <<1425, 8765, 4637, 1568>>, exp |-> -49] :> [sgn |-> -1, man |-> <<15659, 7063, 3550, 158>>, exp |-> -51])
    @@ ([sgn |-> 1, man |-> <<8905, 12574, 2318, 784>>, exp |-> -48] :> [sgn |-> -1, man |-> <<10553, 7359, 12019, 1265>>, exp |-> -54])
    @@ ([sgn |-> 1, man |-> <<1443, 10786, 1014, 201>>, exp |-> -46] :> [sgn |-> -1, man |-> <<7175, 3153, 8803, 1129>>, exp |-> -103])
    @@ ([sgn |-> 1, man |-> <<12987, 15154, 9131, 1809>>, exp |-> -49] :> [sgn |-> 1, man |-> <<1>>, exp |-> 0])
    @@ ([sgn |-> 1, man |-> <<2545, 2366, 9470, 1876>>, exp |-> -49] :> [sgn |-> 1, man |-> <<1227, 14870, 13946, 110>>, exp |-> -49])
    @@ ([sgn |-> 1, man |-> <<1273, 1183, 4735, 938>>, exp |-> -48] :> [sgn |-> 1, man |-> <<2453, 13356, 11509, 221>>, exp |-> -50])
    @@ ([sgn |-> 1, man |-> <<7215, 4778, 5073, 1005>>, exp |-> -48] :> [sgn |-> 1, man |-> <<13065, 16229, 15099, 1411>>, exp |-> -103])
    @@ ([sgn |-> 1, man |-> <<13157, 8373, 5411, 1072>>, exp |-> -48] :> [sgn |-> -1, man |-> <<9809, 4272, 13271, 886>>, exp |-> -52])
    @@ ([sgn |-> 1, man |-> <<11999, 13095, 5237, 4>>, exp |-> -40] :> [sgn |-> -1, man |-> <<1>>, exp |-> 0])
    @@ ([sgn |-> 1, man |-> <<13355, 2477, 3478, 1176>>, exp |-> -48] :> [sgn |-> -1, man |-> <<3559, 2769, 3630, 116>>, exp |-> -50])
    @@ ([sgn |-> 1, man |-> <<13357, 2477, 3478, 1176>>, exp |-> -48] :> [sgn |-> -1, man |-> <<12031, 5769, 12657, 929>>, exp |-> -53])
    @@ ([sgn |-> 1, man |-> <<4329, 15974, 3043, 603>>, exp |-> -47] :> [sgn |-> -1, man |-> <<1285, 6461, 2506, 847>>, exp |-> -102])
    @@ ([sgn |-> 1, man |-> <<10271, 3185, 3382, 670>>, exp |-> -47] :> [sgn |-> 1, man |-> <<3257, 8545, 10158, 1773>>, exp |-> -53])
    @@ ([sgn |-> 1, man |-> <<4159, 6371, 6764, 1340>>, exp |-> -48] :> [sgn |-> 1, man |-> <<3241, 8545, 10158, 1773>>, exp |-> -53])
    @@ ([sgn |-> 1, man |-> <<16043, 13561, 7440, 1474>>, exp |-> -48] :> [sgn |-> -1, man |-> <<3233, 8545, 10158, 1773>>, exp |-> -53])
    @@ ([sgn |-> 1, man |-> <<8903, 12574, 2318, 784>>, exp |-> -47] :> [sgn |-> -1, man |-> <<6835, 4565, 12848, 1203>>, exp |-> -53])
    @@ ([sgn |-> 1, man |-> <<1425, 8765, 4637, 1568>>, exp |-> -48] :> [sgn |-> -1, man |-> <<6757, 4565, 12848, 1203>>, exp |-> -53])
    @@ ([sgn |-> 1, man |-> <<8905, 12574, 2318, 784>>, exp |-> -47] :> [sgn |-> -1, man |-> <<6731, 4565, 12848, 1203>>, exp |-> -53])
    @@ ([sgn |-> 1, man |-> <<1443, 10786, 1014, 201>>, exp |-> -45] :> [sgn |-> -1, man |-> <<7175, 3153, 8803, 1129>>, exp |-> -102])

\* x :> math.cos(x)
CosValues ==
    ([sgn |-> -1, man |-> <<13603, 15871, 16092, 753>>, exp |-> -43] :> [sgn |-> 1, man |-> <<1>>, exp |-> 0])
    @@ ([sgn |-> -1, man |-> <<12213, 7423, 15947, 1130>>, exp |-> -44] :> [sgn |-> 1, man |-> <<1>>, exp |-> 0])
    @@ ([sgn |-> -1, man |-> <<7215, 4778, 5073, 1005>>, exp |-> -44] :> [sgn |-> 1, man |-> <<1>>, exp |-> 0])
    @@ ([sgn |-> -1, man |-> <<10127, 2943, 7537, 1696>>, exp |-> -45] :> [sgn |-> -1, man |-> <<14225, 4727, 7484, 154>>, exp |-> -95])
    @@ ([sgn |-> -1, man |-> <<13603, 15871, 16092, 753>>, exp |-> -44] :> [sgn |-> 1, man |-> <<1>>, exp |-> 0])
    @@ ([sgn |-> -1, man |-> <<12213, 7423, 15947, 1130>>, exp |-> -45] :> [sgn |-> -1, man |-> <<1>>, exp |-> 0])
    @@ ([sgn |-> -1, man |-> <<7215, 4778, 5073, 1005>>, exp |-> -45] :> [sgn |-> 1, man |-> <<1>>, exp |-> 0])
    @@ ([sgn |-> -1, man |-> <<13603, 15871, 16092, 753>>, exp |-> -45] :> [sgn |-> 1, man |-> <<1>>, exp |-> 0])
    @@ ([sgn |-> -1, man |-> <<12213, 7423, 15947, 1130>>, exp |-> -46] :> [sgn |-> 1, man |-> <<723, 16037, 13494, 1128>>, exp |-> -102])
    @@ ([sgn |-> -1, man |-> <<7215, 4778, 5073, 1005>>, exp |-> -46] :> [sgn |-> 1, man |-> <<1>>, exp |-> 0])
    @@ ([sgn |-> -1, man |-> <<13603, 15871, 16092, 753>>, exp |-> -46] :> [sgn |-> -1, man |-> <<1>>, exp |-> 0])
    @@ ([sgn |-> -1, man |-> <<7215, 4778, 5073, 1005>>, exp |-> -47] :> [sgn |-> 1, man |-> <<1>>, exp |-> 0])
    @@ ([sgn |-> -1, man |-> <<7215, 4778, 5073, 1005>>, exp |-> -48] :> [sgn |-> -1, man |-> <<1>>, exp |-> 0])
    @@ ([sgn |-> 1, man |-> <<>>, exp |-> 0] :> [sgn |-> 1, man |-> <<1>>, exp |-> 0])
    @@ ([sgn |-> 1, man |-> <<15679, 9553, 5857, 148>>, exp |-> -115] :> [sgn |-> 1, man |-> <<1>>, exp |-> 0])
    @@ ([sgn |-> 1, man |-> <<15679, 9553, 5857, 148>>, exp |-> -114] :> [sgn |-> 1, man |-> <<1>>, exp |-> 0])
    @@ ([sgn |-> 1, man |-> <<14269, 12277, 1188, 445>>, exp |-> -115] :> [sgn |-> 1, man |-> <<1>>, exp |-> 0])
    @@ ([sgn |-> 1, man |-> <<15679, 9553, 5857, 148>>, exp |-> -113] :> [sgn |-> 1, man |-> <<1>>, exp |-> 0])
    @@ ([sgn |-> 1, man |-> <<3137, 6233, 14634, 42>>, exp |-> -54] :> [sgn |-> 1, man |-> <<12197, 193, 16269, 127>>, exp |-> -49])
    @@ ([sgn |-> 1, man |-> <<12591, 8548, 9385, 171>>, exp |-> -56] :> [sgn |-> 1, man |-> <<12197, 193, 16269, 127>>, exp |-> -49])
    @@ ([sgn |-> 1, man |-> <<2509, 2854, 9548, 1372>>, exp |-> -59] :> [sgn |-> 1, man |-> <<12197, 193, 16269, 127>>, exp |-> -49])
    @@ ([sgn |-> 1, man |-> <<9141, 713, 2387, 343>>, exp |-> -57] :> [sgn |-> 1, man |-> <<12197, 193, 16269, 127>>, exp |-> -49])
    @@ ([sgn |-> 1, man |-> <<3137, 6233, 14634, 42>>, exp |-> -53] :> [sgn |-> 1, man |-> <<4975, 3926, 14544, 511>>, exp |-> -51])
    @@ ([sgn |-> 1, man |-> <<12591, 8548, 9385, 171>>, exp |-> -55] :> [sgn |-> 1, man |-> <<4975, 3926, 14544, 511>>, exp |-> -51])
    @@ ([sgn |-> 1, man |-> <<2509, 2854, 9548, 1372>>, exp |-> -58] :> [sgn |-> 1, man |-> <<4975, 3926, 14544, 511>>, exp |-> -51])
    @@ ([sgn |-> 1, man |-> <<9141, 713, 2387, 343>>, exp |-> -56] :> [sgn |-> 1, man |-> <<3515, 15705, 9024, 2047>>, exp |-> -53])
    @@ ([sgn |-> 1, man |-> <<9411, 2315, 11135, 128>>, exp |-> -54] :> [sgn |-> 1, man |-> <<2115, 7482, 8105, 1023>>, exp |-> -52])
    @@ ([sgn |-> 1, man |-> <<5005, 9262, 11772, 514>>, exp |-> -56] :> [sgn |-> 1, man |-> <<2115, 7482, 8105, 1023>>, exp |-> -52])
    @@ ([sgn |-> 1, man |-> <<5037, 9262, 11772, 514>>, exp |-> -56] :> [sgn |-> 1, man |-> <<4229, 14964, 16210, 2046>>, exp |-> -53])
    @@ ([sgn |-> 1, man |-> <<11039, 2140, 7161, 1029>>, exp |-> -57] :> [sgn |-> 1, man |-> <<1057, 11933, 12244, 511>>, exp |-> -51])
    @@ ([sgn |-> 1, man |-> <<3137, 6233, 14634, 42>>, exp |-> -52] :> [sgn |-> 1, man |-> <<1309, 1019, 3335, 2046>>, exp |-> -53])
    @@ ([sgn |-> 1, man |-> <<12591, 8548, 9385, 171>>, exp |-> -54] :> [sgn |-> 1, man |-> <<12615, 12542, 9025, 511>>, exp |-> -51])
    @@ ([sgn |-> 1, man |-> <<2509, 2854, 9548, 1372>>, exp |-> -57] :> [sgn |-> 1, man |-> <<1307, 1019, 3335, 2046>>, exp |-> -53])
    @@ ([sgn |-> 1, man |-> <<9141, 713, 2387, 343>>, exp |-> -55] :> [sgn |-> 1, man |-> <<6307, 14463, 12704, 255>>, exp |-> -50])
    @@ ([sgn |-> 1, man |-> <<15411, 13980, 11453, 321>>, exp |-> -53] :> [sgn |-> 1, man |-> <<14615, 5167, 11410, 505>>, exp |-> -51])
    @@ ([sgn |-> 1, man |-> <<10119, 11987, 3479, 40>>, exp |-> -50] :> [sgn |-> 1, man |-> <<14615, 5167, 11410, 505>>, exp |-> -51])
    @@ ([sgn |-> 1, man |-> <<12517, 6771, 13047, 1286>>, exp |-> -55] :> [sgn |-> 1, man |-> <<9307, 4287, 12873, 2022>>, exp |-> -53])
    @@ ([sgn |-> 1, man |-> <<3859, 7591, 6959, 80>>, exp |-> -51] :> [sgn |-> 1, man |-> <<15499, 2583, 13897, 252>>, exp |-> -50])
    @@ ([sgn |-> 1, man |-> <<15411, 13980, 11453, 321>>, exp |-> -52] :> [sgn |-> 1, man |-> <<10881, 9864, 14448, 973>>, exp |-> -52])
    @@ ([sgn |-> 1, man |-> <<10119, 11987, 3479, 40>>, exp |-> -49] :> [sgn |-> 1, man |-> <<5375, 3345, 12513, 1947>>, exp |-> -53])
    @@ ([sgn |-> 1, man |-> <<12517, 6771, 13047, 1286>>, exp |-> -54] :> [sgn |-> 1, man |-> <<5375, 3345, 12513, 1947>>, exp |-> -53])
    @@ ([sgn |-> 1, man |-> <<3859, 7591, 6959, 80>>, exp |-> -50] :> [sgn |-> 1, man |-> <<5363, 3345, 12513, 1947>>, exp |-> -53])
    @@ ([sgn |-> 1, man |-> <<13465, 9174, 1593, 965>>, exp |-> -53] :> [sgn |-> 1, man |-> <<2845, 7485, 3200, 456>>, exp |-> -51])
    @@ ([sgn |-> 1, man |-> <<13973, 3194, 10439, 120>>, exp |-> -50] :> [sgn |-> 1, man |-> <<11373, 13556, 12801, 1824>>, exp |-> -53])
    @@ ([sgn |-> 1, man |-> <<11563, 6389, 4494, 241>>, exp |-> -51] :> [sgn |-> 1, man |-> <<11371, 13556, 12801, 1824>>, exp |-> -53])
    @@ ([sgn |-> 1, man |-> <<10697, 1965, 3187, 1930>>, exp |-> -54] :> [sgn |-> 1, man |-> <<11345, 13556, 12801, 1824>>, exp |-> -53])
    @@ ([sgn |-> 1, man |-> <<13157, 8373, 5411, 1072>>, exp |-> -53] :> [sgn |-> 1, man |-> <<3243, 8545, 10158, 1773>>, exp |-> -53])
    @@ ([sgn |-> 1, man |-> <<15411, 13980, 11453, 321>>, exp |-> -51] :> [sgn |-> 1, man |-> <<15661, 7063, 3550, 414>>, exp |-> -51])
    @@ ([sgn |-> 1, man |-> <<10119, 11987, 3479, 40>>, exp |-> -48] :> [sgn |-> 1, man |-> <<16021, 3531, 1775, 207>>, exp |-> -50])
    @@ ([sgn |-> 1, man |-> <<12517, 6771, 13047, 1286>>, exp |-> -53] :> [sgn |-> 1, man |-> <<13477, 11871, 14201, 1656>>, exp |-> -53])
    @@ ([sgn |-> 1, man |-> <<3859, 7591, 6959, 80>>, exp |-> -49] :> [sgn |-> 1, man |-> <<13433, 11871, 14201, 1656>>, exp |-> -53])
    @@ ([sgn |-> 1, man |-> <<13157, 8373, 5411, 1072>>, exp |-> -52] :> [sgn |-> 1, man |-> <<1, 0, 0, 1024>>, exp |-> -53])
    @@ ([sgn |-> 1, man |-> <<1443, 10786, 1014, 201>>, exp |-> -49] :> [sgn |-> 1, man |-> <<7175, 3153, 8803, 1129>>, exp |-> -106])
    @@ ([sgn |-> 1, man |-> <<13157, 8373, 5411, 1072>>, exp |-> -51] :> [sgn |-> -1, man |-> <<16383, 16383, 16383, 511>>, exp |-> -52])
    @@ ([sgn |-> 1, man |-> <<10271, 3185, 3382, 670>>, exp |-> -50] :> [sgn |-> -1, man |-> <<3241, 8545, 10158, 1773>>, exp |-> -53])
    @@ ([sgn |-> 1, man |-> <<4159, 6371, 6764, 1340>>, exp |-> -51] :> [sgn |-> -1, man |-> <<3243, 8545, 10158, 1773>>, exp |-> -53])
    @@ ([sgn |-> 1, man |-> <<1443, 10786, 1014, 201>>, exp |-> -48] :> [sgn |-> -1, man |-> <<1>>, exp |-> 0])
    @@ ([sgn |-> 1, man |-> <<2545, 2366, 9470, 1876>>, exp |-> -51] :> [sgn |-> -1, man |-> <<4907, 10328, 6635, 443>>, exp |-> -51])
    @@ ([sgn |-> 1, man |-> <<1273, 1183, 4735, 938>>, exp |-> -50] :> [sgn |-> -1, man |-> <<9813, 4272, 13271, 886>>, exp |-> -52])
    @@ ([sgn |-> 1, man |-> <<13157, 8373, 5411, 1072>>, exp |-> -50] :> [sgn |-> -1, man |-> <<1, 0, 0, 256>>, exp |-> -51])
    @@ ([sgn |-> 1, man |-> <<4329, 15974, 3043, 603>>, exp |-> -49] :> [sgn |-> -1, man |-> <<1285, 6461, 2506, 847>>, exp |-> -104])
    @@ ([sgn |-> 1, man |-> <<10271, 3185, 3382, 670>>, exp |-> -49] :> [sgn |-> 1, man |-> <<16381, 16383, 16383, 511>>, exp |-> -52])
    @@ ([sgn |-> 1, man |-> <<4159, 6371, 6764, 1340>>, exp |-> -50] :> [sgn |-> 1, man |-> <<1, 0, 0, 1024>>, exp |-> -53])
    @@ ([sgn |-> 1, man |-> <<16043, 13561, 7440, 1474>>, exp |-> -50] :> [sgn |-> 1, man |-> <<2453, 13356, 11509, 221>>, exp |-> -50])
    @@ ([sgn |-> 1, man |-> <<8903, 12574, 2318, 784>>, exp |-> -49] :> [sgn |-> 1, man |-> <<15499, 2583, 13897, 252>>, exp |-> -50])
    @@ ([sgn |-> 1, man |-> <<1425, 8765, 4637, 1568>>, exp |-> -50] :> [sgn |-> 1, man |-> <<9307, 4287, 12873, 2022>>, exp |-> -53])
    @@ ([sgn |-> 1, man |-> <<8905, 12574, 2318, 784>>, exp |-> -49] :> [sgn |-> 1, man |-> <<9309, 4287, 12873, 2022>>, exp |-> -53])
    @@ ([sgn |-> 1, man |-> <<1443, 10786, 1014, 201>>, exp |-> -47] :> [sgn |-> 1, man |-> <<1>>, exp |-> 0])
    @@ ([sgn |-> 1, man |-> <<2545, 2366, 9470, 1876>>, exp |-> -50] :> [sgn |-> 1, man |-> <<5, 0, 0, 1024>>, exp |-> -53])
    @@ ([sgn |-> 1, man |-> <<1273, 1183, 4735, 938>>, exp |-> -49] :> [sgn |-> 1, man |-> <<16379, 16383, 16383, 2047>>, exp |-> -54])
    @@ ([sgn |-> 1, man |-> <<7215, 4778, 5073, 1005>>, exp |-> -49] :> [sgn |-> 1, man |-> <<13065, 16229, 15099, 1411>>, exp |-> -104])
    @@ ([sgn |-> 1, man |-> <<13157, 8373, 5411, 1072>>, exp |-> -49] :> [sgn |-> -1, man |-> <<16377, 16383, 16383, 1023>>, exp |-> -53])
    @@ ([sgn |-> 1, man |-> <<4329, 15974, 3043, 603>>, exp |-> -48] :> [sgn |-> -1, man |-> <<1>>, exp |-> 0])
    @@ ([sgn |-> 1, man |-> <<10271, 3185, 3382, 670>>, exp |-> -48] :> [sgn |-> -1, man |-> <<3, 0, 0, 256>>, exp |-> -51])
    @@ ([sgn |-> 1, man |-> <<4159, 6371, 6764, 1340>>, exp |-> -49] :> [sgn |-> -1, man |-> <<16381, 16383, 16383, 2047>>, exp |-> -54])
    @@ ([sgn |-> 1, man |-> <<10101, 9966, 7102, 1407>>, exp |-> -49] :> [sgn |-> -1, man |-> <<10307, 6499, 2827, 494>>, exp |-> -102])
    @@ ([sgn |-> 1, man |-> <<16043, 13561, 7440, 1474>>, exp |-> -49] :> [sgn |-> 1, man |-> <<16383, 16383, 16383, 127>>, exp |-> -50])
    @@ ([sgn |-> 1, man |-> <<8903, 12574, 2318, 784>>, exp |-> -48] :> [sgn |-> 1, man |-> <<5359, 3345, 12513, 1947>>, exp |-> -53])
    @@ ([sgn |-> 1, man |-> <<1425, 8765, 4637, 1568>>, exp |-> -49] :> [sgn |-> 1, man |-> <<10879, 9864, 14448, 973>>, exp |-> -52])
    @@ ([sgn |-> 1, man |-> <<8905, 12574, 2318, 784>>, exp |-> -48] :> [sgn |-> 1, man |-> <<5379, 3345, 12513, 1947>>, exp |-> -53])
    @@ ([sgn |-> 1, man |-> <<1443, 10786, 1014, 201>>, exp |-> -46] :> [sgn |-> 1, man |-> <<1>>, exp |-> 0])
    @@ ([sgn |-> 1, man |-> <<12987, 15154, 9131, 1809>>, exp |-> -49] :> [sgn |-> 1, man |-> <<7409, 15547, 13781, 158>>, exp |-> -100])
    @@ ([sgn |-> 1, man |-> <<2545, 2366, 9470, 1876>>, exp |-> -49] :> [sgn |-> -1, man |-> <<16375, 16383, 16383, 1023>>, exp |-> -53])
    @@ ([sgn |-> 1, man |-> <<1273, 1183, 4735, 938>>, exp |-> -48] :> [sgn |-> -1, man |-> <<5, 0, 0, 1024>>, exp |-> -53])
    @@ ([sgn |-> 1, man |-> <<7215, 4778, 5073, 1005>>, exp |-> -48] :> [sgn |-> -1, man |-> <<1>>, exp |-> 0])
    @@ ([sgn |-> 1, man |-> <<13157, 8373, 5411, 1072>>, exp |-> -48] :> [sgn |-> -1, man |-> <<7, 0, 0, 512>>, exp |-> -52])
    @@ ([sgn |-> 1, man |-> <<11999, 13095, 5237, 4>>, exp |-> -40] :> [sgn |-> -1, man |-> <<16337, 797, 2281, 706>>, exp |-> -100])
    @@ ([sgn |-> 1, man |-> <<13355, 2477, 3478, 1176>>, exp |-> -48] :> [sgn |-> 1, man |-> <<4805, 1871, 800, 114>>, exp |-> -49])
    @@ ([sgn |-> 1, man |-> <<13357, 2477, 3478, 1176>>, exp |-> -48] :> [sgn |-> 1, man |-> <<11373, 13556, 12801, 1824>>, exp |-> -53])
    @@ ([sgn |-> 1, man |-> <<4329, 15974, 3043, 603>>, exp |-> -47] :> [sgn |-> 1, man |-> <<1>>, exp |-> 0])
    @@ ([sgn |-> 1, man |-> <<10271, 3185, 3382, 670>>, exp |-> -47] :> [sgn |-> -1, man |-> <<16359, 16383, 16383, 1023>>, exp |-> -53])
    @@ ([sgn |-> 1, man |-> <<4159, 6371, 6764, 1340>>, exp |-> -48] :> [sgn |-> -1, man |-> <<3, 0, 0, 1024>>, exp |-> -53])
    @@ ([sgn |-> 1, man |-> <<16043, 13561, 7440, 1474>>, exp |-> -48] :> [sgn |-> -1, man |-> <<1, 0, 0, 64>>, exp |-> -49])
    @@ ([sgn |-> 1, man |-> <<8903, 12574, 2318, 784>>, exp |-> -47] :> [sgn |-> 1, man |-> <<14901, 14127, 7100, 828>>, exp |-> -52])
    @@ ([sgn |-> 1, man |-> <<1425, 8765, 4637, 1568>>, exp |-> -48] :> [sgn |-> 1, man |-> <<13475, 11871, 14201, 1656>>, exp |-> -53])
    @@ ([sgn |-> 1, man |-> <<8905, 12574, 2318, 784>>, exp |-> -47] :> [sgn |-> 1, man |-> <<14939, 14127, 7100, 828>>, exp |-> -52])
    @@ ([sgn |-> 1, man |-> <<1443, 10786, 1014, 201>>, exp |-> -45] :> [sgn |-> 1, man |-> <<1>>, exp |-> 0])

math_sin(x) == SinValues[x]

math_cos(x) == CosValues[x]

(***************************************************************************)
(* State.  T and SEGMENTS are the module globals of fourier_piston.py; a0, *)
(* a_list and b_list are the caller's series (the locals of main), unbound *)
(* until the call that computes them returns.  op, arg_N, arg_t, exc and   *)
(* ret record the last call, its argument, and how it ended; t_reduced is  *)
(* the local t of reconstruct after its "t = t % T" when the last call is  *)
(* one of reconstruct, and 0.0 else.                                       *)
(***************************************************************************)
VARIABLES T, SEGMENTS, a0, a_list, b_list, bound, op, arg_N, arg_t, t_reduced,
          exc, ret, requests, arg_samples, rows

fourier_vars ==
    <<T, SEGMENTS, a0, a_list, b_list, bound, op, arg_N, arg_t, t_reduced,
      exc, ret, requests, arg_samples, rows>>

(***************************************************************************)
(* State of vispy/visualizations.py run with --play-all or --watch.        *)
(* build_dir maps every snapshot path to <<>> (no such file) or to         *)
(* <<file>>, a file being its modification time, its version and what      *)
(* load_snapshot reads from it: whether it has the header line, the number *)
(* of data rows, and the least and greatest value of the field.  clock is  *)
(* the time of the file system.  mode, loop, lock_scale, vmin and vmax are *)
(* the arguments of main, vmin and vmax being <<>> for None and <<v>> for  *)
(* a number; files, pos, im, last_path and last_mtime are the locals of    *)
(* the two render loops, im being <<>> for None and else the image on      *)
(* screen with its colormap limits; pc is the position in the program, or  *)
(* the exception that ended it.  In watch_heatmap files is the local of    *)
(* find_latest_snapshot and path and mtime are the locals of the           *)
(* iteration.  rendered lists the paths rendered in the current pass of    *)
(* play_all_snapshots, passes counts its completed passes, load_parity is  *)
(* the parity of the number of calls of load_snapshot watch_heatmap has    *)
(* made in its loop, shown is <<>> or the path and the version of the      *)
(* snapshot on screen, and writes counts the writes of the simulation,     *)
(* each of which makes a new version of a file.                            *)
(***************************************************************************)
VARIABLES build_dir, clock, mode, loop, lock_scale, vmin, vmax, pc, files, pos,
          im, last_path, last_mtime, rendered, passes, load_parity, path,
          mtime, shown, writes

vis_vars ==
    <<build_dir, clock, mode, loop, lock_scale, vmin, vmax, pc, files, pos,
      im, last_path, last_mtime, rendered, passes, load_parity, path, mtime,
      shown, writes>>

(***************************************************************************)
(* State of scripts/plot_field_xt.py and scripts/plot_pres0.py.  csv_dir   *)
(* maps every snapshot path to <<>> (no such file) or to <<file>>, a file  *)
(* being its modification time and its data rows; csv_op is the function   *)
(* last called, csv_field its field argument and csv_ret what it returned  *)
(* or raised.                                                              *)
(***************************************************************************)
VARIABLES csv_dir, csv_op, csv_field, csv_ret

scripts_vars == <<csv_dir, csv_op, csv_field, csv_ret>>

vars == <<fourier_vars, vis_vars, scripts_vars>>

None == <<>>

\* last_path = None
NoPath == 0

\* the state of the plotting scripts before they are run
ScriptsIdle ==
    /\ csv_dir = <<<<>>, <<>>, <<>>>>
    /\ csv_op = "idle"
    /\ csv_field = ""
    /\ csv_ret = [exc |-> "none"]

\* the state of the viewer before main is entered
VisIdle ==
    /\ build_dir = <<None, None, None>>
    /\ clock = 1
    /\ mode = "idle"
    /\ loop = FALSE
    /\ lock_scale = TRUE
    /\ vmin = None
    /\ vmax = None
    /\ pc = "idle"
    /\ files = <<>>
    /\ pos = 1
    /\ im = None
    /\ last_path = NoPath
    /\ last_mtime = 0
    /\ rendered = <<>>
    /\ passes = 0
    /\ load_parity = 0
    /\ path = NoPath
    /\ mtime = 0
    /\ shown = None
    /\ writes = 0

NoException == "none"

Ok(x) == [exc |-> NoException, val |-> x]

Raise(e) == [exc |-> e, val |-> Zero]


\* w = 2.0 * math.pi * n / T (T # 0)
AngularFrequency(n) == Div(Mul(Mul(Two, math_pi), Int2Num(n)), T)

\* value * (math.sin(w * t1) - math.sin(w * t0)) / w
CosIntegral(value, t0, t1, w) ==
    Div(Mul(value, Sub(math_sin(Mul(w, t1)), math_sin(Mul(w, t0)))), w)

\* a faulty variant: the minus sign of the antiderivative of sin dropped
SinIntegral_NoMinus(value, t0, t1, w) ==
    Div(Mul(value, Sub(math_cos(Mul(w, t1)), math_cos(Mul(w, t0)))), w)

\* -value * (math.cos(w * t1) - math.cos(w * t0)) / w
SinIntegral(value, t0, t1, w) ==
    Div(Mul(Neg(value), Sub(math_cos(Mul(w, t1)), math_cos(Mul(w, t0)))), w)

\* the part of piecewise_integral after "w = ...": the division by w
\* raises ZeroDivisionError when w is 0.0
IntegralWithFrequency(value, t0, t1, kind, w) ==
    IF kind = "cos" THEN
        IF IsZero(w) THEN Raise("ZeroDivisionError")
        ELSE Ok(CosIntegral(value, t0, t1, w))
    ELSE IF kind = "sin" THEN
        IF IsZero(w) THEN Raise("ZeroDivisionError")
        ELSE Ok(SinIntegral(value, t0, t1, w))
    ELSE Raise("ValueError")

\* func is <<kind, n>>; the division by T in w raises ZeroDivisionError
\* when T is 0.0
piecewise_integral(value, t0, t1, func) ==
    IF func[1] = "const" THEN Ok(Mul(value, Sub(t1, t0)))
    ELSE IF IsZero(T) THEN Raise("ZeroDivisionError")
    ELSE IntegralWithFrequency(value, t0, t1, func[1], AngularFrequency(func[2]))

\* total += term, unless the loop has already raised or the term raises
Accumulate(total, term) ==
    IF total.exc # NoException THEN total
    ELSE IF term.exc # NoException THEN term
    ELSE Ok(Add(total.val, term.val))

\* total after the first i segments of "for (t0, t1, v) in SEGMENTS:
\* total += piecewise_integral(v, t0, t1, func)", started from 0.0
RECURSIVE SegmentLoop(_, _)
SegmentLoop(func, i) ==
    IF i = 0 THEN Ok(Zero)
    ELSE Accumulate(SegmentLoop(func, i - 1),
                    piecewise_integral(SEGMENTS[i][3], SEGMENTS[i][1],
                                       SEGMENTS[i][2], func))

\* return (2.0 / T) * total
ScaleByTwoOverT(total) ==
    IF total.exc # NoException THEN total
    ELSE IF IsZero(T) THEN Raise("ZeroDivisionError")
    ELSE Ok(Mul(Div(Two, T), total.val))

\* a faulty variant: the factor 2.0 / T forgotten
compute_a0_Unscaled == SegmentLoop(<<"const", 0>>, Len(SEGMENTS))

compute_a0 == ScaleByTwoOverT(SegmentLoop(<<"const", 0>>, Len(SEGMENTS)))

\* the calls <<kind, n, segment>> of piecewise_integral made by the body of
\* the loop for harmonic n, in order: for every segment the cosine integral
\* and then the sine integral; the first call is the last when it raises
HarmonicRequests(n) ==
    IF SEGMENTS = <<>> THEN <<>>
    ELSE IF IsZero(T) \/ n = 0 THEN << <<"cos", n, 1>> >>
    ELSE [k \in 1..(2 * Len(SEGMENTS)) |->
             <<IF k % 2 = 1 THEN "cos" ELSE "sin", n, (k + 1) \div 2>>]

\* a_n *= (2.0 / T); b_n *= (2.0 / T); a_list.append(a_n); b_list.append(b_n)
AppendHarmonic(lists, a_n, b_n, calls) ==
    IF a_n.exc # NoException
    THEN [exc |-> a_n.exc, a_list |-> <<>>, b_list |-> <<>>, calls |-> calls]
    ELSE IF b_n.exc # NoException
    THEN [exc |-> b_n.exc, a_list |-> <<>>, b_list |-> <<>>, calls |-> calls]
    ELSE [exc |-> NoException,
          a_list |-> Append(lists.a_list, a_n.val),
          b_list |-> Append(lists.b_list, b_n.val),
          calls |-> calls]

\* the body of "for n in range(1, N + 1)"
Harmonic(lists, n) ==
    AppendHarmonic(lists,
                   ScaleByTwoOverT(SegmentLoop(<<"cos", n>>, Len(SEGMENTS))),
                   ScaleByTwoOverT(SegmentLoop(<<"sin", n>>, Len(SEGMENTS))),
                   lists.calls \o HarmonicRequests(n))

\* the loop of compute_an_bn from harmonic n on, with the lists built so far
RECURSIVE HarmonicLoop(_, _, _)
HarmonicLoop(n, N, lists) ==
    IF n > N \/ lists.exc # NoException THEN lists
    ELSE HarmonicLoop(n + 1, N, Harmonic(lists, n))

\* a_list = []; b_list = []; no integral requested yet
NoHarmonics ==
    [exc |-> NoException, a_list |-> <<>>, b_list |-> <<>>, calls |-> <<>>]

\* a faulty variant: range(1, N) in place of range(1, N + 1)
compute_an_bn_ShortRange(N) == HarmonicLoop(1, N - 1, NoHarmonics)

\* a faulty variant: range(N + 1) in place of range(1, N + 1)
compute_an_bn_FromZero(N) == HarmonicLoop(0, N, NoHarmonics)

compute_an_bn(N) == HarmonicLoop(1, N, NoHarmonics)

\* s += a_n * math.cos(w * t) + b_n * math.sin(w * t)
SeriesTerm(s, a_n, b_n, w, t) ==
    Add(s, Add(Mul(a_n, math_cos(Mul(w, t))), Mul(b_n, math_sin(Mul(w, t)))))

\* s after the first i terms of the loop of reconstruct, t already reduced
RECURSIVE SeriesLoop(_, _, _, _, _)
SeriesLoop(t, s0, al, bl, i) ==
    IF i = 0 THEN s0
    ELSE SeriesTerm(SeriesLoop(t, s0, al, bl, i - 1), al[i], bl[i],
                    AngularFrequency(i), t)

\* t = t % T (T # 0)
ReducedTime(t) == FloatMod(t, T)

\* a faulty variant: s = a0 in place of s = a0 / 2.0
reconstruct_NoHalf(t, a0_, al, bl) ==
    IF IsZero(T) THEN Raise("ZeroDivisionError")
    ELSE Ok(SeriesLoop(ReducedTime(t), a0_, al, bl, Min(Len(al), Len(bl))))

reconstruct(t, a0_, al, bl) ==
    IF IsZero(T) THEN Raise("ZeroDivisionError")
    ELSE Ok(SeriesLoop(ReducedTime(t), Div(a0_, Two), al, bl,
                       Min(Len(al), Len(bl))))

\* a faulty variant: the segments taken as (t0, t1] in place of [t0, t1)
RECURSIVE OriginalValue_RightClosed(_, _)
OriginalValue_RightClosed(t, i) ==
    IF i > Len(SEGMENTS)
    THEN IF SEGMENTS = <<>>
         THEN [exc |-> "IndexError", orig |-> Zero]
         ELSE [exc |-> NoException, orig |-> SEGMENTS[1][3]]
    ELSE IF Less(SEGMENTS[i][1], t) /\ LessEq(t, SEGMENTS[i][2])
         THEN [exc |-> NoException, orig |-> SEGMENTS[i][3]]
         ELSE OriginalValue_RightClosed(t, i + 1)

\* orig of the sample report: the value of the first segment from segment i
\* on with t0 <= t < t1, and SEGMENTS[0][2] when the loop finds none
RECURSIVE OriginalValue(_, _)
OriginalValue(t, i) ==
    IF i > Len(SEGMENTS)
    THEN IF SEGMENTS = <<>>
         THEN [exc |-> "IndexError", orig |-> Zero]
         ELSE [exc |-> NoException, orig |-> SEGMENTS[1][3]]
    ELSE IF LessEq(SEGMENTS[i][1], t) /\ Less(t, SEGMENTS[i][2])
         THEN [exc |-> NoException, orig |-> SEGMENTS[i][3]]
         ELSE OriginalValue(t, i + 1)

\* t = i * T / (args.samples - 1), for samples # 1
SampleTime(i, samples) == Div(Mul(Int2Num(i), T), Int2Num(samples - 1))

\* one pass of the body of "for i in range(args.samples)" after t is known:
\* val = reconstruct(...), then the search for orig, then the print
SampleRow(out, t, val, orig) ==
    IF val.exc # NoException THEN [exc |-> val.exc, rows |-> out.rows]
    ELSE IF orig.exc # NoException THEN [exc |-> orig.exc, rows |-> out.rows]
    ELSE [exc |-> NoException,
          rows |-> Append(out.rows, [t |-> t, orig |-> orig.orig, val |-> val.val])]

\* the body of the loop for sample i, t being its sample time
SampleAt(out, t) ==
    SampleRow(out, t, reconstruct(t, a0, a_list, b_list), OriginalValue(t, 1))

\* the loop "for i in range(args.samples)" from sample i on, out being the
\* rows printed so far; the division by (samples - 1) = 0 raises
RECURSIVE SampleLoop(_, _, _)
SampleLoop(i, samples, out) ==
    IF i >= samples \/ out.exc # NoException THEN out
    ELSE IF samples - 1 = 0
    THEN [exc |-> "ZeroDivisionError", rows |-> out.rows]
    ELSE SampleLoop(i + 1, samples, SampleAt(out, SampleTime(i, samples)))

\* the part of main under "if args.show_series:"
show_series(samples) == SampleLoop(0, samples, [exc |-> NoException, rows |-> <<>>])

(***************************************************************************)
(* Configurations.  The program ships with T = 60.0 and the four segments  *)
(* of the piston acceleration; the functions read both as globals, so a    *)
(* caller (or a test) may set others.  The model starts from the shipped   *)
(* configuration and from small variations of it: other segment lists,     *)
(* another period, and the degenerate periods 0.0 and -4.0.                *)
(***************************************************************************)
T_60 == Int2Num(60)

\* a segment (start, end, value) with whole numbers as its three floats
Segment(t0, t1, v) == <<Int2Num(t0), Int2Num(t1), Int2Num(v)>>

\* a faulty variant: the last segment starts at 45, leaving [40, 45) uncovered
SEGMENTS_60_Gap ==
    <<Segment(0, 10, 3), Segment(10, 30, 0), Segment(30, 40, 1), Segment(45, 60, 0)>>

SEGMENTS_60 ==
    <<Segment(0, 10, 3), Segment(10, 30, 0), Segment(30, 40, 1), Segment(40, 60, 0)>>

\* the shipped segmentation with the value v on every segment
SameValue(v) == [i \in 1..Len(SEGMENTS_60) |->
                    <<SEGMENTS_60[i][1], SEGMENTS_60[i][2], Int2Num(v)>>]

\* one or two segments that tile [0, P), cut at a quarter of P
Tilings(P) ==
    {<<Segment(0, P, 3)>>,
     <<Segment(0, P \div 4, 3), Segment(P \div 4, P, 3)>>,
     <<Segment(0, P \div 4, 3), Segment(P \div 4, P, 0)>>}

\* two segments out of order
Unsorted(P) == <<Segment(P \div 2, P, 1), Segment(0, P \div 2, 3)>>

Configs ==
    {[T |-> T_60, SEGMENTS |-> S] :
        S \in {SEGMENTS_60, SameValue(3), Unsorted(60), <<>>}}
    \cup {[T |-> Int2Num(4), SEGMENTS |-> S] : S \in Tilings(4)}
    \cup {[T |-> Int2Num(P), SEGMENTS |-> S] :
              P \in {0, -4}, S \in {SEGMENTS_60, <<>>}}

\* times a caller starts from: 0.0 and the float literals 0.1 and -1e-20,
\* a time below zero by less than half the spacing of the doubles next to
\* the period
BaseTimes ==
    {Zero,
     [sgn |-> 1, man |-> <<3277, 13107, 3276, 819>>, exp |-> -55],
     [sgn |-> -1, man |-> <<547, 12873, 2576, 1511>>, exp |-> -119]}

\* sample times: the times t + k * P a caller computes from those
SampleTimes(P) ==
    {Add(t, Mul(Int2Num(k), P)) : t \in BaseTimes, k \in (-MaxK)..MaxK}

Orders == (-MaxN)..MaxN

\* the values of --samples: those without a row, 1, and those that cut the
\* period into 1, 2, 3, 4, 6 or 12 steps
SampleCounts == {s \in (-1)..MaxSamples : s <= 1 \/ 12 % (s - 1) = 0}

FourierInit ==
    /\ \E c \in Configs : T = c.T /\ SEGMENTS = c.SEGMENTS
    /\ a0 = Zero
    /\ a_list = <<>>
    /\ b_list = <<>>
    /\ bound = {}
    /\ op = "import"
    /\ arg_N = 0
    /\ arg_t = Zero
    /\ t_reduced = Zero
    /\ exc = NoException
    /\ ret = Zero
    /\ requests = <<>>
    /\ arg_samples = 0
    /\ rows = <<>>

Init == FourierInit /\ VisIdle /\ ScriptsIdle

\* a0 = compute_a0(), r being what the call returns or raises
Return_compute_a0(r) ==
    /\ op' = "compute_a0"
    /\ arg_N' = 0
    /\ arg_t' = Zero
    /\ t_reduced' = Zero
    /\ exc' = r.exc
    /\ ret' = r.val
    /\ IF r.exc = NoException
       THEN a0' = r.val /\ bound' = bound \cup {"a0"}
       ELSE UNCHANGED <<a0, bound>>
    /\ requests' = <<>>
    /\ arg_samples' = 0
    /\ rows' = <<>>
    /\ UNCHANGED <<T, SEGMENTS, a_list, b_list>>
    /\ UNCHANGED <<vis_vars, scripts_vars>>

Call_compute_a0 == Return_compute_a0(compute_a0)

\* a_list, b_list = compute_an_bn(N)
Return_compute_an_bn(N, r) ==
    /\ op' = "compute_an_bn"
    /\ arg_N' = N
    /\ arg_t' = Zero
    /\ t_reduced' = Zero
    /\ exc' = r.exc
    /\ ret' = Zero
    /\ IF r.exc = NoException
       THEN /\ a_list' = r.a_list
            /\ b_list' = r.b_list
            /\ bound' = bound \cup {"a_list", "b_list"}
       ELSE UNCHANGED <<a_list, b_list, bound>>
    /\ requests' = r.calls
    /\ arg_samples' = 0
    /\ rows' = <<>>
    /\ UNCHANGED <<T, SEGMENTS, a0>>
    /\ UNCHANGED <<vis_vars, scripts_vars>>

Call_compute_an_bn == \E N \in Orders : Return_compute_an_bn(N, compute_an_bn(N))

\* a faulty variant: reconstruct consumes the lists it is given
Return_reconstruct_Consuming(t, r) ==
    /\ op' = "reconstruct"
    /\ arg_N' = 0
    /\ arg_t' = t
    /\ t_reduced' = (IF IsZero(T) THEN Zero ELSE ReducedTime(t))
    /\ exc' = r.exc
    /\ ret' = r.val
    /\ a_list' = <<>>
    /\ b_list' = <<>>
    /\ requests' = <<>>
    /\ arg_samples' = 0
    /\ rows' = <<>>
    /\ UNCHANGED <<T, SEGMENTS, a0, bound>>
    /\ UNCHANGED <<vis_vars, scripts_vars>>

\* val = reconstruct(t, a0, a_list, b_list)
Return_reconstruct(t, r) ==
    /\ op' = "reconstruct"
    /\ arg_N' = 0
    /\ arg_t' = t
    /\ t_reduced' = (IF IsZero(T) THEN Zero ELSE ReducedTime(t))
    /\ exc' = r.exc
    /\ ret' = r.val
    /\ requests' = <<>>
    /\ arg_samples' = 0
    /\ rows' = <<>>
    /\ UNCHANGED <<T, SEGMENTS, a0, a_list, b_list, bound>>
    /\ UNCHANGED <<vis_vars, scripts_vars>>

Call_reconstruct ==
    /\ bound = {"a0", "a_list", "b_list"}
    /\ \E t \in SampleTimes(T) :
          Return_reconstruct(t, reconstruct(t, a0, a_list, b_list))

\* main with --show-series --samples <samples>, after the coefficients are
\* computed: the rows printed, and the exception that ends the report if any
Return_show_series(samples, r) ==
    /\ op' = "show_series"
    /\ arg_N' = 0
    /\ arg_t' = Zero
    /\ t_reduced' = Zero
    /\ arg_samples' = samples
    /\ exc' = r.exc
    /\ ret' = Zero
    /\ rows' = r.rows
    /\ requests' = <<>>
    /\ UNCHANGED <<T, SEGMENTS, a0, a_list, b_list, bound>>
    /\ UNCHANGED <<vis_vars, scripts_vars>>

Call_show_series ==
    /\ bound = {"a0", "a_list", "b_list"}
    /\ \E samples \in SampleCounts :
          Return_show_series(samples, show_series(samples))

\* the functions of the module, called in any order by a program that
\* imports it
Next == Call_compute_a0 \/ Call_compute_an_bn \/ Call_reconstruct

Spec == Init /\ [][Next]_vars

\* main: the coefficients computed by compute_a0 and compute_an_bn, then
\* the sample report of --show-series
ReportNext == Call_compute_a0 \/ Call_compute_an_bn \/ Call_show_series

SpecReport == Init /\ [][ReportNext]_vars


(***************************************************************************)
(* The coefficient formulas of the specification, written from its text    *)
(* in the arithmetic of the program and with none of its operators.  A sum *)
(* over the segments is taken in the order of the list, from 0.0.          *)
(***************************************************************************)
Spec_Positive(x) == Less(Zero, x)

\* w_n = 2*pi*n/T
Spec_w(n) == Div(Mul(Mul(Two, math_pi), Int2Num(n)), T)

\* sum over the first i segments of value * (end - start)
RECURSIVE Spec_WidthSum(_, _)
Spec_WidthSum(segs, i) ==
    IF i = 0 THEN Zero
    ELSE Add(Spec_WidthSum(segs, i - 1),
             Mul(segs[i][3], Sub(segs[i][2], segs[i][1])))

\* value * [sin(w*end) - sin(w*start)] / w
Spec_CosTerm(seg, w) ==
    Div(Mul(seg[3], Sub(math_sin(Mul(w, seg[2])), math_sin(Mul(w, seg[1])))), w)

\* -value * [cos(w*end) - cos(w*start)] / w
Spec_SinTerm(seg, w) ==
    Div(Mul(Neg(seg[3]), Sub(math_cos(Mul(w, seg[2])), math_cos(Mul(w, seg[1])))), w)

\* sum over the first i segments of value * [sin(w_n*end) - sin(w_n*start)] / w_n
RECURSIVE Spec_CosSum(_, _, _)
Spec_CosSum(n, segs, i) ==
    IF i = 0 THEN Zero
    ELSE Add(Spec_CosSum(n, segs, i - 1), Spec_CosTerm(segs[i], Spec_w(n)))

\* sum over the first i segments of -value * [cos(w_n*end) - cos(w_n*start)] / w_n
RECURSIVE Spec_SinSum(_, _, _)
Spec_SinSum(n, segs, i) ==
    IF i = 0 THEN Zero
    ELSE Add(Spec_SinSum(n, segs, i - 1), Spec_SinTerm(segs[i], Spec_w(n)))

Spec_a(n) == Mul(Div(Two, T), Spec_CosSum(n, SEGMENTS, Len(SEGMENTS)))

Spec_b(n) == Mul(Div(Two, T), Spec_SinSum(n, SEGMENTS, Len(SEGMENTS)))

Returned(f) == op = f /\ exc = NoException

(***************************************************************************)
(* C1.  For every period T <= 0, compute_a0 and compute_an_bn end in a     *)
(* DomainError.  The code has no such check: with T = 0 compute_a0 ends in *)
(* the ZeroDivisionError of 2.0 / T, compute_an_bn(N) in that of the       *)
(* division in w for N >= 1 and returns two empty lists for N <= 0; with   *)
(* T < 0 both return values.                                               *)
(***************************************************************************)
C1_BadPeriodIsDomainError ==
    (LessEq(T, Zero) /\ op \in {"compute_a0", "compute_an_bn"}) =>
        exc = "DomainError"

(***************************************************************************)
(* C2.  For every harmonic order N < 0, compute_an_bn ends in a            *)
(* DomainError and returns no lists.  The code runs range(1, N + 1), which *)
(* is empty, and returns two empty lists.                                  *)
(***************************************************************************)
C2_NegativeOrderIsDomainError ==
    (op = "compute_an_bn" /\ arg_N < 0) =>
        (exc = "DomainError" /\ "a_list" \notin bound /\ "b_list" \notin bound)

(***************************************************************************)
(* C3.  For a period T > 0 and every N >= 0, compute_an_bn(N) returns two  *)
(* lists of length exactly N, the entry at 0-based index i being the       *)
(* coefficient of harmonic i + 1; for N = 0 both lists are empty.          *)
(***************************************************************************)
C3_LengthAndIndexing ==
    (Spec_Positive(T) /\ op = "compute_an_bn" /\ arg_N >= 0) =>
        /\ exc = NoException
        /\ Len(a_list) = arg_N
        /\ Len(b_list) = arg_N
        /\ \A i \in 0..(arg_N - 1) :
              a_list[i + 1] = Spec_a(i + 1) /\ b_list[i + 1] = Spec_b(i + 1)
        /\ (arg_N = 0 => a_list = <<>> /\ b_list = <<>>)

C3_Witness ==
    /\ T = T_60 /\ SEGMENTS = SEGMENTS_60
    /\ Returned("compute_an_bn") /\ arg_N = MaxN
    /\ Len(a_list) = MaxN /\ a_list[1] # a_list[MaxN]

(***************************************************************************)
(* C4.  With no harmonics (empty a_list and b_list) reconstruct returns    *)
(* exactly a0 / 2 at every time t.                                         *)
(***************************************************************************)
C4_DCTermAlone ==
    (~IsZero(T) /\ bound = {"a0", "a_list", "b_list"}
       /\ a_list = <<>> /\ b_list = <<>>) =>
        /\ \A t \in SampleTimes(T) :
              reconstruct(t, a0, a_list, b_list) = Ok(Div(a0, Two))
        /\ (op = "reconstruct" => exc = NoException /\ ret = Div(a0, Two))

C4_Witness ==
    /\ T = T_60 /\ SEGMENTS = SEGMENTS_60
    /\ Returned("reconstruct") /\ Less(arg_t, Zero)
    /\ a_list = <<>> /\ b_list = <<>> /\ ret = Div(Two, Int2Num(3))

\* x is k * P for a whole number k of at most MaxK + 2 in size, exactly
Spec_WholePeriods(x, P) ==
    \E k \in (-MaxK - 2)..(MaxK + 2) : x = MulExact(Int2Num(k), P)

(***************************************************************************)
(* C5.  In reconstruct, for a period T > 0 and every time t, negative ones *)
(* and those at or beyond T included, the reduced time t % T lies in       *)
(* [0, T) and differs from t by a whole number of periods.  In doubles it  *)
(* does not: for a negative t smaller than half the spacing of the doubles *)
(* below T, such as -1e-20 with T = 60.0, the remainder -1e-20 + 60.0      *)
(* rounds to 60.0 = T.                                                     *)
(***************************************************************************)
C5_TrueModulo ==
    (Spec_Positive(T) /\ Returned("reconstruct")) =>
        /\ LessEq(Zero, t_reduced)
        /\ Less(t_reduced, T)
        /\ Spec_WholePeriods(AddExact(arg_t, Neg(t_reduced)), T)

(***************************************************************************)
(* C6.  For every computed series, every time t and every integer k,       *)
(* reconstruct at t and at t + k*T return the same value.  In doubles      *)
(* they do not: t + k*T and the remainder of its division by T are each    *)
(* rounded, so the two calls evaluate the harmonics at different reduced   *)
(* times (0.1 and (0.1 + 60.0) % 60.0 = 0.10000000000000142).              *)
(***************************************************************************)
C6_Periodicity ==
    (~IsZero(T) /\ Returned("reconstruct")) =>
        \A k \in (-MaxK)..MaxK :
            reconstruct(Add(arg_t, Mul(Int2Num(k), T)), a0, a_list, b_list)
                = Ok(ret)

(***************************************************************************)
(* C7.  compute_a0 returns (2/T) times the sum over the segments of        *)
(* value*(end-start); for T = 60 and the shipped segments the sum is 40,   *)
(* a0 is 4/3 and the DC term a0/2 is 2/3 (the doubles nearest to them).    *)
(***************************************************************************)
C7_DCCoefficient ==
    (~IsZero(T) /\ op = "compute_a0") =>
        /\ exc = NoException
        /\ ret = Mul(Div(Two, T), Spec_WidthSum(SEGMENTS, Len(SEGMENTS)))
        /\ a0 = ret
        /\ (T = T_60 /\ SEGMENTS = SEGMENTS_60 =>
              /\ Spec_WidthSum(SEGMENTS, Len(SEGMENTS)) = Int2Num(40)
              /\ a0 = Div(Int2Num(4), Int2Num(3))
              /\ Div(a0, Two) = Div(Two, Int2Num(3)))

C7_Witness ==
    /\ T = T_60 /\ SEGMENTS = SEGMENTS_60 /\ Returned("compute_a0")
    /\ a0 = [sgn |-> 1, man |-> <<5461, 5461, 5461, 1365>>, exp |-> -52]

\* the segments tile [0, P): each is within it and not empty, no two
\* overlap, and the widths sum to P
Spec_Tiles(P, segs) ==
    /\ Spec_Positive(P) /\ Len(segs) >= 1
    /\ \A i \in 1..Len(segs) :
          LessEq(Zero, segs[i][1]) /\ Less(segs[i][1], segs[i][2])
          /\ LessEq(segs[i][2], P)
    /\ \A i, j \in 1..Len(segs) :
          i # j => (LessEq(segs[i][2], segs[j][1]) \/ LessEq(segs[j][2], segs[i][1]))
    /\ Spec_WidthSum([i \in 1..Len(segs) |-> <<segs[i][1], segs[i][2], Int2Num(1)>>],
                     Len(segs)) = P

Spec_Constant(segs) == \A i \in 1..Len(segs) : segs[i][3] = segs[1][3]

(***************************************************************************)
(* C8.  For a period T > 0 and segments that tile [0, T) with one value V  *)
(* on every segment, compute_a0 returns 2V and compute_an_bn returns       *)
(* a_n = 0 and b_n = 0 for every n in 1..N.  In doubles the harmonics are  *)
(* not 0: math.sin(2*pi*n) is of the order of 1e-16, not 0, and so are the *)
(* coefficients summed from it.                                            *)
(***************************************************************************)
C8_ConstantHasNoHarmonics ==
    (Spec_Tiles(T, SEGMENTS) /\ Spec_Constant(SEGMENTS)) =>
        /\ (op = "compute_a0" =>
              exc = NoException /\ ret = Mul(Two, SEGMENTS[1][3]))
        /\ (op = "compute_an_bn" =>
              /\ exc = NoException
              /\ \A n \in 1..arg_N :
                    n \in DOMAIN a_list /\ n \in DOMAIN b_list
                    /\ a_list[n] = Zero /\ b_list[n] = Zero)

(***************************************************************************)
(* C9.  For a period T > 0 and each harmonic n in 1..N, compute_an_bn      *)
(* returns a_n = (2/T) * sum over the segments of                          *)
(* value*[sin(w_n*end) - sin(w_n*start)]/w_n and b_n = (2/T) * sum over    *)
(* the segments of -value*[cos(w_n*end) - cos(w_n*start)]/w_n, with        *)
(* w_n = 2*pi*n/T, every segment counted once and the sums accumulated in  *)
(* the order of the segment list.                                          *)
(***************************************************************************)
C9_HarmonicFormulas ==
    (Spec_Positive(T) /\ Returned("compute_an_bn")) =>
        \A n \in 1..Len(a_list) :
            a_list[n] = Spec_a(n) /\ b_list[n] = Spec_b(n)

\* a_1 = 0.5513288954217921 and b_1 = 0.3183098861837907 of the shipped function
C9_Witness ==
    /\ T = T_60 /\ SEGMENTS = SEGMENTS_60
    /\ Returned("compute_an_bn") /\ Len(a_list) = MaxN
    /\ a_list[1] = [sgn |-> 1, man |-> <<10565, 16101, 4593, 282>>, exp |-> -51]
    /\ b_list[1] = [sgn |-> 1, man |-> <<2179, 14119, 13062, 1303>>, exp |-> -54]

(***************************************************************************)
(* C10.  No call has a side effect: every call leaves T and SEGMENTS as    *)
(* they were, reconstruct leaves the series it is given (a0, a_list,       *)
(* b_list) as it was, compute_a0 leaves the lists and compute_an_bn leaves *)
(* a0 as they were.                                                        *)
(***************************************************************************)
C10_NoSideEffects ==
    [][/\ T' = T
       /\ SEGMENTS' = SEGMENTS
       /\ (op' = "reconstruct" =>
             a0' = a0 /\ a_list' = a_list /\ b_list' = b_list /\ bound' = bound)
       /\ (op' = "compute_a0" => a_list' = a_list /\ b_list' = b_list)
       /\ (op' = "compute_an_bn" => a0' = a0)]_vars

C10_Witness ==
    /\ T = T_60 /\ SEGMENTS = SEGMENTS_60
    /\ Returned("reconstruct") /\ Len(a_list) = MaxN /\ Len(b_list) = MaxN
    /\ a0 = Div(Int2Num(4), Int2Num(3))

\* the segments of segs that contain the time x
Spec_SegmentsAt(x, segs) ==
    {i \in 1..Len(segs) : LessEq(segs[i][1], x) /\ Less(x, segs[i][2])}

\* the whole number a double of one limb and no fraction holds
Spec_Whole(x) == IF IsZero(x) \/ x.exp < 0 THEN 0 ELSE x.sgn * x.man[1] * Pow2(x.exp)

\* the starts of the segments and the whole times of [0, P)
Spec_TimesOf(P, segs) ==
    {segs[i][1] : i \in 1..Len(segs)} \cup {Int2Num(x) : x \in 0..(Spec_Whole(P) - 1)}

\* the data-model invariant of the specification for a segment list
Spec_DataModel(P, segs) ==
    /\ \A i \in 1..Len(segs) : Less(segs[i][1], segs[i][2])
    /\ \A i, j \in 1..Len(segs) :
          i # j => (LessEq(segs[i][2], segs[j][1]) \/ LessEq(segs[j][2], segs[i][1]))
    /\ \A i \in 1..Len(segs) : LessEq(Zero, segs[i][1]) /\ LessEq(segs[i][2], P)
    /\ \A i \in 1..Len(segs) :
          segs[i][2] = P \/ \E j \in 1..Len(segs) : segs[j][1] = segs[i][2]
    /\ \A x \in Spec_TimesOf(P, segs) : Cardinality(Spec_SegmentsAt(x, segs)) = 1
    /\ Spec_WidthSum([i \in 1..Len(segs) |-> <<segs[i][1], segs[i][2], Int2Num(1)>>],
                     Len(segs)) = P

Shipped == T = T_60 /\ SEGMENTS = SEGMENTS_60

(***************************************************************************)
(* C11.  The segment list the analyzer ships with, for T = 60, satisfies   *)
(* the data-model invariant at every moment of a run: every segment has    *)
(* start < end, no two segments overlap, every time of [0, T) lies in      *)
(* exactly one segment and none lies outside, and the widths sum to T.     *)
(***************************************************************************)
C11_ShippedSegmentsTile ==
    Shipped => (T = Int2Num(60) /\ Len(SEGMENTS) >= 1 /\ Spec_DataModel(T, SEGMENTS))

C11_Witness ==
    Shipped /\ Returned("compute_an_bn") /\ arg_N >= 1 /\ "a0" \in bound

(***************************************************************************)
(* C12.  Every integral compute_an_bn(N) requests is a cosine or a sine    *)
(* integral for a harmonic n with 1 <= n <= N, never n = 0, so that for    *)
(* T > 0 the angular frequency it divides by is not zero and the call does *)
(* not end in a ZeroDivisionError; and the 'const' integrals of compute_a0 *)
(* never compute w: their sum is obtained whatever the period, even T = 0. *)
(***************************************************************************)
C12_HarmonicIndexInRange ==
    /\ op = "compute_an_bn" =>
          /\ \A k \in 1..Len(requests) :
                /\ requests[k][1] \in {"cos", "sin"}
                /\ 1 <= requests[k][2] /\ requests[k][2] <= arg_N
                /\ Spec_Positive(T) => ~IsZero(AngularFrequency(requests[k][2]))
          /\ Spec_Positive(T) => exc = NoException
    /\ SegmentLoop(<<"const", 0>>, Len(SEGMENTS)).exc = NoException

C12_Witness ==
    /\ Returned("compute_an_bn") /\ Spec_Positive(T) /\ arg_N >= 2
    /\ Len(requests) = 2 * arg_N * Len(SEGMENTS)
    /\ \E k \in 1..Len(requests) : requests[k] = <<"sin", arg_N, Len(SEGMENTS)>>
    /\ Len(SEGMENTS) >= 2

(***************************************************************************)
(* C13.  With --show-series, for every sample count samples >= 1 the       *)
(* report completes without error and prints exactly `samples` rows, row i *)
(* at the time i * T / (samples - 1) of [0, T].  The code divides by       *)
(* samples - 1: with --samples 1 the first row ends in ZeroDivisionError   *)
(* and nothing is printed.                                                 *)
(***************************************************************************)
C13_EverySampleCountReports ==
    (Shipped /\ op = "show_series" /\ arg_samples >= 1) =>
        /\ exc = NoException
        /\ Len(rows) = arg_samples
        /\ \A i \in 1..Len(rows) :
              /\ LessEq(Zero, rows[i].t) /\ LessEq(rows[i].t, T)
              /\ MulExact(rows[i].t, Int2Num(arg_samples - 1))
                    = MulExact(Int2Num(i - 1), T)

(***************************************************************************)
(* C14.  In the --show-series report over a segment list that satisfies    *)
(* the data model, every sample time t lies in [0, T]; for t < T the       *)
(* printed original value is the value of the unique segment with          *)
(* start <= t < end; for t = T it is the value of the first segment of the *)
(* list, which is the function at time 0 = T mod T whenever the list       *)
(* starts with the segment at 0, as the shipped list does.                 *)
(***************************************************************************)
C14_OriginalValue ==
    (Spec_Positive(T) /\ op = "show_series" /\ Spec_DataModel(T, SEGMENTS)) =>
        \A k \in 1..Len(rows) :
            /\ LessEq(Zero, rows[k].t) /\ LessEq(rows[k].t, T)
            /\ Less(rows[k].t, T) =>
                  \A i \in Spec_SegmentsAt(rows[k].t, SEGMENTS) :
                      rows[k].orig = SEGMENTS[i][3]
            /\ rows[k].t = T => rows[k].orig = SEGMENTS[1][3]
            /\ SEGMENTS[1][1] = Zero =>
                  \A i \in Spec_SegmentsAt(FloatMod(rows[k].t, T), SEGMENTS) :
                      rows[k].orig = SEGMENTS[i][3]

C14_Witness ==
    /\ Shipped /\ Returned("show_series") /\ Len(rows) = MaxSamples
    /\ rows[Len(rows)].t = T /\ rows[Len(rows)].orig = Int2Num(3)
    /\ \E k \in 1..Len(rows) : rows[k].t = Int2Num(10) /\ rows[k].orig = Zero
    /\ \E k \in 1..Len(rows) : rows[k].t = Int2Num(35) /\ rows[k].orig = Int2Num(1)

(***************************************************************************)
(* vispy/visualizations.py: playback of all snapshots and the watch loop.  *)
(*                                                                         *)
(* Snapshot files.  Path 1 is snapshot_2.csv, path 2 is snapshot_1.csv and *)
(* path 3 is a snapshot_*.csv whose name holds no number, for which        *)
(* list_snapshots_sorted falls back to the modification time.  A file      *)
(* holds the header line and some data rows, none included, or it is one   *)
(* load_snapshot rejects: with ValueError when the header line is missing  *)
(* or cut, as in a file its writer has just created, or when a row breaks  *)
(* off in a field whose text float() or int() does not accept; with        *)
(* TypeError when a row ends with a whole field that is not its last, the  *)
(* fields it lacks being read as None.  The directory does not change      *)
(* while play_all_snapshots runs; while watch_heatmap runs the simulation  *)
(* writes, rewrites and removes files.                                     *)
(***************************************************************************)
Paths == 1..3

\* the number in the file name of a path, <<>> when it has none
NameTime == << <<2>>, <<1>>, None >>

\* what a snapshot file may hold: text load_snapshot rejects with
\* ValueError ("torn") or with TypeError ("cut"), or the header line and
\* width data rows with the min and max of the field, which are one number
\* when there is one row
Shapes ==
    {[form |-> "torn", width |-> 0, lo |-> 0, hi |-> 0],
     [form |-> "cut", width |-> 0, lo |-> 0, hi |-> 0],
     [form |-> "csv", width |-> 0, lo |-> 0, hi |-> 0],
     [form |-> "csv", width |-> 1, lo |-> 1, hi |-> 1],
     [form |-> "csv", width |-> 2, lo |-> 0, hi |-> 3]}

\* the file of shape sh written at time m as version v
File(m, v, sh) ==
    [mtime |-> m, version |-> v, form |-> sh.form, width |-> sh.width,
     lo |-> sh.lo, hi |-> sh.hi]

\* glob.glob(pattern): the paths of the snapshot files of the directory
Glob == {p \in Paths : build_dir[p] # None}

\* os.path.getmtime(p), p being a file of the directory
getmtime(p) == build_dir[p][1].mtime

\* tval of list_snapshots_sorted: the number in the name, else the mtime
SnapshotTime(p) == IF NameTime[p] # None THEN NameTime[p][1] ELSE getmtime(p)

\* the orders in which the paths of S can be listed
Listings(S) ==
    {l \in [1..Cardinality(S) -> S] : \A i, j \in 1..Cardinality(S) : i # j => l[i] # l[j]}

\* the lists list_snapshots_sorted can return: (path, tval) in ascending
\* tval, equal tval in the order of glob, which is any order
list_snapshots_sorted ==
    {[i \in 1..Len(l) |-> <<l[i], SnapshotTime(l[i])>>] :
        l \in {m \in Listings(Glob) :
                  \A i, j \in 1..Len(m) :
                      i < j => SnapshotTime(m[i]) <= SnapshotTime(m[j])}}

\* files[0] after files.sort(key=getmtime, reverse=True): the sort is
\* stable, so of the files of greatest mtime the first of the list is taken
LatestOf(fs) ==
    fs[CHOOSE i \in 1..Len(fs) :
          /\ \A j \in 1..Len(fs) : getmtime(fs[j]) <= getmtime(fs[i])
          /\ \A j \in 1..(i - 1) : getmtime(fs[j]) < getmtime(fs[i])]

\* load_snapshot(p): FileNotFoundError when p is no file, ValueError when
\* the header line is missing or float() or int() rejects the text of a
\* field, TypeError when a row lacks a field (float(None), int(None)), else
\* the snapshot of the rows of the file
load_snapshot(p) ==
    IF build_dir[p] = None THEN [exc |-> "FileNotFoundError", snap |-> None]
    ELSE IF build_dir[p][1].form = "torn" THEN [exc |-> "ValueError", snap |-> None]
    ELSE IF build_dir[p][1].form = "cut" THEN [exc |-> "TypeError", snap |-> None]
    ELSE [exc |-> NoException, snap |-> build_dir[p]]

\* the body of the loop of compute_minmax_over_files, r being the result of
\* load_snapshot: "if data.size == 0: continue", else the min and max
MinMaxStep(acc, r) ==
    IF r.exc # NoException THEN [exc |-> r.exc, vmin |-> None, vmax |-> None]
    ELSE IF r.snap[1].width = 0 THEN acc
    ELSE [exc |-> NoException,
          vmin |-> <<IF acc.vmin = None THEN r.snap[1].lo
                     ELSE Min(acc.vmin[1], r.snap[1].lo)>>,
          vmax |-> <<IF acc.vmax = None THEN r.snap[1].hi
                     ELSE Max(acc.vmax[1], r.snap[1].hi)>>]

\* "for path, _ in files:" of compute_minmax_over_files from file i on
RECURSIVE MinMaxLoop(_, _, _)
MinMaxLoop(fs, i, acc) ==
    IF i > Len(fs) \/ acc.exc # NoException THEN acc
    ELSE MinMaxLoop(fs, i + 1, MinMaxStep(acc, load_snapshot(fs[i][1])))

\* (vmin, vmax) over the files of a list that have data, (None, None) when
\* none has; the exception of load_snapshot when a file cannot be loaded
compute_minmax_over_files(fs) ==
    MinMaxLoop(fs, 1, [exc |-> NoException, vmin |-> None, vmax |-> None])

\* ax.imshow(H, ..., vmin=vmin, vmax=vmax): a limit that is None is taken
\* from the data of the frame
imshow(snap) ==
    [width |-> snap.width,
     clim |-> <<IF vmin = None THEN snap.lo ELSE vmin[1],
                IF vmax = None THEN snap.hi ELSE vmax[1]>>]

\* the image after one frame: created when there is none or the number of
\* samples changed; else set_data, then set_clim, autoscale or neither
RenderFrame(snap) ==
    IF im = None \/ im[1].width # snap.width THEN <<imshow(snap)>>
    ELSE IF lock_scale /\ (vmin # None /\ vmax # None)
    THEN <<[width |-> snap.width, clim |-> <<vmin[1], vmax[1]>>]>>
    ELSE IF ~lock_scale /\ (vmin = None \/ vmax = None)
    THEN <<[width |-> snap.width, clim |-> <<snap.lo, snap.hi>>]>>
    ELSE <<[width |-> snap.width, clim |-> im[1].clim]>>

\* fourier_piston.py loaded and not run
FourierIdle ==
    /\ T = T_60
    /\ SEGMENTS = SEGMENTS_60
    /\ a0 = Zero
    /\ a_list = <<>>
    /\ b_list = <<>>
    /\ bound = {}
    /\ op = "import"
    /\ arg_N = 0
    /\ arg_t = Zero
    /\ t_reduced = Zero
    /\ exc = NoException
    /\ ret = Zero
    /\ requests = <<>>
    /\ arg_samples = 0
    /\ rows = <<>>

\* what the viewer starts from whatever its mode: the arguments
\* --no-lock-scale, --vmin and --vmax (neither given, the lower one only,
\* or both), and the locals before the loops
ViewerInit ==
    /\ lock_scale \in BOOLEAN
    /\ \E u \in {<<None, None>>, <<<<1>>, None>>, <<<<1>>, <<4>>>>} :
          vmin = u[1] /\ vmax = u[2]
    /\ pc = "start"
    /\ files = <<>>
    /\ pos = 1
    /\ im = None
    /\ last_path = NoPath
    /\ last_mtime = 0
    /\ rendered = <<>>
    /\ passes = 0
    /\ load_parity = 0
    /\ path = NoPath
    /\ mtime = 0
    /\ shown = None
    /\ writes = 0
    /\ FourierIdle
    /\ ScriptsIdle

\* the build directories playback starts from: any set of snapshot files,
\* all of version 0, the files named after a time all written at the same
\* moment (playback reads the mtime of a file only when its name holds no
\* number)
PlayDirs ==
    {d \in [Paths -> {None} \cup {<<File(m, 0, sh)>> : m \in 1..MaxClock,
                                                       sh \in Shapes}] :
        \A p \in Paths :
            (d[p] # None /\ NameTime[p] # None) => d[p][1].mtime = 1}

\* main with --play-all, with or without --loop, on any build directory
PlayInit ==
    /\ mode = "play"
    /\ loop \in BOOLEAN
    /\ build_dir \in PlayDirs
    /\ clock = MaxClock
    /\ ViewerInit

\* main with --watch, started on an empty build directory
WatchInit ==
    /\ mode = "watch"
    /\ loop = FALSE
    /\ build_dir = [p \in Paths |-> None]
    /\ clock = 1
    /\ ViewerInit

\* "if lock_scale and (vmin is None or vmax is None):" with its body, auto
\* being what compute_minmax_over_files returns or raises: "if vmin is
\* None: vmin = vmin_auto; if vmax is None: vmax = vmax_auto"; then the loop
ComputeLimits(auto) ==
    IF lock_scale /\ (vmin = None \/ vmax = None)
    THEN IF auto.exc # NoException
         THEN pc' = auto.exc /\ UNCHANGED <<vmin, vmax>>
         ELSE /\ pc' = "loop"
              /\ vmin' = (IF vmin = None THEN auto.vmin ELSE vmin)
              /\ vmax' = (IF vmax = None THEN auto.vmax ELSE vmax)
    ELSE pc' = "loop" /\ UNCHANGED <<vmin, vmax>>

\* play_all_snapshots up to the render loop: the list of files, SystemExit
\* when it is empty, and the locked limits
PlayStart ==
    /\ mode = "play" /\ pc = "start"
    /\ \E fs \in list_snapshots_sorted :
          /\ files' = fs
          /\ IF fs = <<>>
             THEN pc' = "SystemExit" /\ UNCHANGED <<vmin, vmax>>
             ELSE ComputeLimits(compute_minmax_over_files(fs))
    /\ UNCHANGED <<build_dir, clock, mode, loop, lock_scale, pos, im, last_path,
                   last_mtime, rendered, passes, load_parity, path, mtime,
                   shown, writes>>
    /\ UNCHANGED <<fourier_vars, scripts_vars>>

\* the body of "for path, tval in files:" for the file p, r being the
\* result of load_snapshot(p): an exception of load_snapshot, or the
\* ValueError of x.min() on a snapshot without rows, leaves the loop and
\* the program; else the frame is rendered
PlayFrame(p, r) ==
    IF r.exc # NoException
    THEN pc' = r.exc /\ UNCHANGED <<im, rendered, pos>>
    ELSE IF r.snap[1].width = 0
    THEN pc' = "ValueError" /\ UNCHANGED <<im, rendered, pos>>
    ELSE /\ im' = RenderFrame(r.snap[1])
         /\ rendered' = Append(rendered, p)
         /\ pos' = pos + 1
         /\ pc' = pc

\* one pass of the body of "for path, tval in files:"
PlayRender ==
    /\ mode = "play" /\ pc = "loop" /\ pos <= Len(files)
    /\ PlayFrame(files[pos][1], load_snapshot(files[pos][1]))
    /\ UNCHANGED <<build_dir, clock, mode, loop, lock_scale, vmin, vmax, files,
                   last_path, last_mtime, passes, load_parity, path, mtime,
                   shown, writes>>
    /\ UNCHANGED <<fourier_vars, scripts_vars>>

\* the end of the for loop: "if not loop: break", else the next pass
PlayEndPass ==
    /\ mode = "play" /\ pc = "loop" /\ pos > Len(files)
    /\ passes' = (IF passes < MaxPasses THEN passes + 1 ELSE passes)
    /\ IF ~loop
       THEN pc' = "done" /\ UNCHANGED <<pos, rendered>>
       ELSE pc' = "loop" /\ pos' = 1 /\ rendered' = <<>>
    /\ UNCHANGED <<build_dir, clock, mode, loop, lock_scale, vmin, vmax, files, im,
                   last_path, last_mtime, load_parity, path, mtime, shown,
                   writes>>
    /\ UNCHANGED <<fourier_vars, scripts_vars>>

\* watch_heatmap before the loop, first half: files_now, and no look at
\* the directory when the limits are given or the scale is not locked
WatchStart ==
    /\ mode = "watch" /\ pc = "start"
    /\ IF lock_scale /\ (vmin = None \/ vmax = None)
       THEN \E fs \in list_snapshots_sorted : files' = fs /\ pc' = "limits"
       ELSE pc' = "loop" /\ UNCHANGED files
    /\ UNCHANGED <<build_dir, clock, mode, loop, lock_scale, vmin, vmax, pos, im,
                   last_path, last_mtime, rendered, passes, load_parity, path,
                   mtime, shown, writes>>
    /\ UNCHANGED <<fourier_vars, scripts_vars>>

\* watch_heatmap before the loop, second half: the limits from files_now
WatchLimits ==
    /\ mode = "watch" /\ pc = "limits"
    /\ ComputeLimits(compute_minmax_over_files(files))
    /\ files' = <<>>
    /\ UNCHANGED <<build_dir, clock, mode, loop, lock_scale, pos, im, last_path,
                   last_mtime, rendered, passes, load_parity, path, mtime,
                   shown, writes>>
    /\ UNCHANGED <<fourier_vars, scripts_vars>>

\* the positions inside the render loops
LoopPcs == {"loop", "sort", "stat", "load"}

\* "path = find_latest_snapshot(build_dir)", first half: files = glob(...);
\* without files path is None, the title says so and the iteration ends
WatchGlob ==
    /\ mode = "watch" /\ pc = "loop"
    /\ \E l \in Listings(Glob) :
          /\ files' = l
          /\ pc' = (IF l = <<>> THEN "loop" ELSE "sort")
    /\ UNCHANGED <<build_dir, clock, mode, loop, lock_scale, vmin, vmax, pos, im,
                   last_path, last_mtime, rendered, passes, load_parity, path,
                   mtime, shown, writes>>
    /\ UNCHANGED <<fourier_vars, scripts_vars>>

\* "path = find_latest_snapshot(build_dir)", second half: the sort by
\* getmtime, which raises FileNotFoundError for a file removed since glob
WatchSort ==
    /\ mode = "watch" /\ pc = "sort"
    /\ IF \E i \in 1..Len(files) : build_dir[files[i]] = None
       THEN pc' = "FileNotFoundError" /\ UNCHANGED path
       ELSE pc' = "stat" /\ path' = LatestOf(files)
    /\ UNCHANGED <<build_dir, clock, mode, loop, lock_scale, vmin, vmax, files,
                   pos, im, last_path, last_mtime, rendered, passes,
                   load_parity, mtime, shown, writes>>
    /\ UNCHANGED <<fourier_vars, scripts_vars>>

\* "mtime = os.path.getmtime(path)"
WatchStat ==
    /\ mode = "watch" /\ pc = "stat"
    /\ IF build_dir[path] = None
       THEN pc' = "FileNotFoundError" /\ UNCHANGED mtime
       ELSE pc' = "load" /\ mtime' = getmtime(path)
    /\ UNCHANGED <<build_dir, clock, mode, loop, lock_scale, vmin, vmax, files,
                   pos, im, last_path, last_mtime, rendered, passes,
                   load_parity, path, shown, writes>>
    /\ UNCHANGED <<fourier_vars, scripts_vars>>

\* the body of "if path != last_path or mtime > last_mtime:", r being the
\* result of load_snapshot(path): an exception of load_snapshot, or the
\* ValueError of x.min() on a snapshot without rows, leaves the loop and
\* the program; else the frame is rendered and remembered
WatchFrame(r) ==
    IF r.exc # NoException
    THEN pc' = r.exc /\ UNCHANGED <<im, last_path, last_mtime, shown>>
    ELSE IF r.snap[1].width = 0
    THEN pc' = "ValueError" /\ UNCHANGED <<im, last_path, last_mtime, shown>>
    ELSE /\ im' = RenderFrame(r.snap[1])
         /\ last_path' = path
         /\ last_mtime' = mtime
         /\ shown' = <<path, r.snap[1].version>>
         /\ pc' = "loop"

\* "if path != last_path or mtime > last_mtime:" to the end of the
\* iteration, whose locals are dead once it ends
WatchLoad ==
    /\ mode = "watch" /\ pc = "load"
    /\ IF path # last_path \/ mtime > last_mtime
       THEN WatchFrame(load_snapshot(path)) /\ load_parity' = 1 - load_parity
       ELSE pc' = "loop" /\ UNCHANGED <<im, last_path, last_mtime, shown, load_parity>>
    /\ files' = <<>>
    /\ path' = NoPath
    /\ mtime' = 0
    /\ UNCHANGED <<build_dir, clock, mode, loop, lock_scale, vmin, vmax, pos,
                   rendered, passes, writes>>
    /\ UNCHANGED <<fourier_vars, scripts_vars>>

\* KeyboardInterrupt in either render loop
Interrupt ==
    /\ pc \in LoopPcs
    /\ pc' = "interrupted"
    /\ UNCHANGED <<build_dir, clock, mode, loop, lock_scale, vmin, vmax, files, pos,
                   im, last_path, last_mtime, rendered, passes, load_parity,
                   path, mtime, shown, writes>>
    /\ UNCHANGED <<fourier_vars, scripts_vars>>

(***************************************************************************)
(* The simulation that writes the snapshots is not part of these scripts.  *)
(* It is modelled as any writer: at any moment it may create or rewrite a  *)
(* snapshot file named after a time, what a reader then finds being any of *)
(* the shapes (a file being written is found without its header line, with *)
(* a row broken off inside a field or after one, or with the rows          *)
(* written so far), and a file may be removed.  Each write makes a new     *)
(* version of the file, stamped with the time of the clock; two writes     *)
(* within one tick of the clock carry the same mtime.  The simulation does *)
(* not stop when the viewer does.                                          *)
(***************************************************************************)
\* the paths the simulation writes: those named after a time
SimulationPaths == {p \in Paths : NameTime[p] # None}

\* the versions a snapshot file can have
Spec_Versions == 1..MaxWrites

\* the simulation writes or rewrites a snapshot file
SimulationWrites ==
    /\ mode = "watch"
    /\ writes < MaxWrites
    /\ writes' = writes + 1
    /\ \E p \in SimulationPaths, sh \in Shapes :
          build_dir' = [build_dir EXCEPT ![p] = <<File(clock, writes + 1, sh)>>]
    /\ UNCHANGED <<clock, mode, loop, lock_scale, vmin, vmax, pc, files, pos, im,
                   last_path, last_mtime, rendered, passes, load_parity, path,
                   mtime, shown>>
    /\ UNCHANGED <<fourier_vars, scripts_vars>>

\* a snapshot file is removed
SimulationRemoves ==
    /\ mode = "watch"
    /\ \E p \in SimulationPaths :
          /\ build_dir[p] # None
          /\ build_dir' = [build_dir EXCEPT ![p] = None]
    /\ UNCHANGED <<clock, mode, loop, lock_scale, vmin, vmax, pc, files, pos, im,
                   last_path, last_mtime, rendered, passes, load_parity, path,
                   mtime, shown, writes>>
    /\ UNCHANGED <<fourier_vars, scripts_vars>>

\* time passes on the file system
ClockTick ==
    /\ mode = "watch"
    /\ clock < MaxClock
    /\ clock' = clock + 1
    /\ UNCHANGED <<build_dir, mode, loop, lock_scale, vmin, vmax, pc, files, pos, im,
                   last_path, last_mtime, rendered, passes, load_parity, path,
                   mtime, shown, writes>>
    /\ UNCHANGED <<fourier_vars, scripts_vars>>

PlayNext == PlayStart \/ PlayRender \/ PlayEndPass \/ Interrupt

\* the render loop is straight-line code between two sleeps: it goes on to
\* the next frame and to the end of the pass until a KeyboardInterrupt
SpecPlayFair ==
    /\ PlayInit /\ [][PlayNext]_vars
    /\ WF_vars(PlayStart) /\ WF_vars(PlayRender) /\ WF_vars(PlayEndPass)

WatchNext ==
    \/ WatchStart \/ WatchLimits \/ WatchGlob \/ WatchSort \/ WatchStat
    \/ WatchLoad \/ Interrupt \/ SimulationWrites \/ SimulationRemoves
    \/ ClockTick

\* the watch loop keeps polling: every statement is followed by the next
\* and time.sleep(interval) by the next iteration, until an exception
SpecWatchFair ==
    /\ WatchInit /\ [][WatchNext]_vars
    /\ WF_vars(WatchStart) /\ WF_vars(WatchLimits) /\ WF_vars(WatchGlob)
    /\ WF_vars(WatchSort) /\ WF_vars(WatchStat) /\ WF_vars(WatchLoad)

\* the snapshot time of a path: the number in its name, else its mtime
Spec_SnapshotTime(p) ==
    IF NameTime[p] # None THEN NameTime[p][1] ELSE build_dir[p][1].mtime

\* a sequence of paths without repetition, in ascending snapshot time
Spec_OnceInTimeOrder(ps) ==
    /\ \A i, j \in 1..Len(ps) : i # j => ps[i] # ps[j]
    /\ \A i, j \in 1..Len(ps) :
          i < j => Spec_SnapshotTime(ps[i]) <= Spec_SnapshotTime(ps[j])

\* every snapshot file of the directory is one load_snapshot reads
Spec_AllReadable == \A p \in Glob : build_dir[p][1].form = "csv"

\* what holds of play_all_snapshots at every moment
C15_PlaybackSafety ==
    mode = "play" =>
        /\ Glob = {} => (pc \in {"start", "SystemExit"} /\ im = None /\ rendered = <<>>)
        /\ pc = "SystemExit" => Glob = {}
        /\ pc = "start" => (im = None /\ rendered = <<>>)
        /\ pc \in {"loop", "done", "interrupted"} =>
              /\ {rendered[i] : i \in 1..Len(rendered)} \subseteq Glob
              /\ Spec_OnceInTimeOrder(rendered)
              /\ Spec_OnceInTimeOrder([i \in 1..Len(files) |-> files[i][1]])
              /\ rendered = [i \in 1..(pos - 1) |-> files[i][1]]
        /\ pc = "loop" /\ pos > Len(files) =>
              {rendered[i] : i \in 1..Len(rendered)} = Glob
        /\ pc = "done" =>
              /\ ~loop /\ passes = 1
              /\ {rendered[i] : i \in 1..Len(rendered)} = Glob
        /\ (~loop /\ pc \in {"loop", "interrupted"}) => passes = 0
        /\ loop => pc # "done"

(***************************************************************************)
(* C15.  play_all_snapshots with no snapshot file ends in SystemExit       *)
(* before it renders anything.  Otherwise each pass renders every snapshot *)
(* file found at start exactly once, in ascending snapshot time, the order *)
(* of the list list_snapshots_sorted returned.  With loop = False the      *)
(* first pass is the only one and the render loop is then left; with       *)
(* loop = True the loop is never left but by an interrupt, and a finished  *)
(* pass is always followed by the start of the same pass again.  The claim *)
(* is stated here for directories whose files load_snapshot all reads, and *)
(* fails even so: a file with the header line and no data row is skipped   *)
(* when the limits are computed, and the pass that comes to it ends in the *)
(* ValueError of x.min() with the later files not rendered.                *)
(***************************************************************************)
C15_Playback ==
    /\ []C15_PlaybackSafety
    /\ (mode = "play" /\ pc = "start" /\ Spec_AllReadable) ~> (pc \in {"SystemExit", "loop"})
    /\ (~loop /\ pc = "loop" /\ Spec_AllReadable) ~> (pc \in {"done", "interrupted"})
    /\ (loop /\ pc = "loop" /\ pos = 1 /\ Spec_AllReadable) ~>
           (pc = "interrupted" \/ (pc = "loop" /\ pos > Len(files)))
    /\ (loop /\ pc = "loop" /\ pos > Len(files)) ~>
           (pc = "interrupted" \/ (pc = "loop" /\ pos = 1 /\ rendered = <<>>))

\* path p holds version v, a snapshot with rows, and no other file of the
\* directory is as recently modified
Spec_MostRecent(p, v) ==
    /\ build_dir[p] # None
    /\ build_dir[p][1].version = v
    /\ build_dir[p][1].form = "csv" /\ build_dir[p][1].width > 0
    /\ \A q \in Paths \ {p} :
          build_dir[q] = None \/ build_dir[q][1].mtime < build_dir[p][1].mtime

\* the watch loop has loaded and displayed version v of path p
Spec_Displayed(p, v) == shown = <<p, v>>

\* a step of the watch loop that loads a snapshot
Spec_Loads == load_parity' # load_parity

(***************************************************************************)
(* C16.  Whenever a snapshot file becomes the most recently modified file  *)
(* of the build directory, the watch loop eventually loads and displays    *)
(* that snapshot, unless it is interrupted; and a poll iteration loads a   *)
(* snapshot only if its path differs from the last loaded path or its      *)
(* mtime is strictly greater than the last loaded mtime.  The claim is     *)
(* stated here for snapshots with data rows and with "unless another write *)
(* supersedes it" granted, and fails even so: the loop ends in ValueError  *)
(* on a file it finds without its rows or its header line and in TypeError *)
(* on one whose last row lacks a field, and a file rewritten within the    *)
(* tick of the clock of the version on screen is never loaded again.       *)
(***************************************************************************)
C16_EveryLatestIsDisplayed ==
    /\ \A p \in SimulationPaths : \A v \in Spec_Versions :
          Spec_MostRecent(p, v) ~>
              (Spec_Displayed(p, v) \/ ~Spec_MostRecent(p, v) \/ pc = "interrupted")
    /\ [][Spec_Loads => (path # last_path \/ mtime > last_mtime)]_vars

(***************************************************************************)
(* C17.  With lock_scale = True every frame watch_heatmap renders is       *)
(* displayed with the same colormap limits, those fixed before the render  *)
(* loop: both limits are known when the loop starts and no frame is shown  *)
(* with others.  Started on a build directory without snapshots and        *)
(* without --vmin and --vmax, watch_heatmap enters the loop with both      *)
(* limits None: the first frame takes its limits from its own data, and a  *)
(* later frame with another number of samples, for which the image is      *)
(* created anew, takes them from its own.                                  *)
(***************************************************************************)
C17_LockedLimitsNeverChange ==
    [][(lock_scale /\ pc \in LoopPcs /\ im' # None) =>
           /\ vmin # None /\ vmax # None
           /\ im'[1].clim = <<vmin[1], vmax[1]>>
           /\ im # None => im'[1].clim = im[1].clim]_vars


(***************************************************************************)
(* scripts/plot_field_xt.py and scripts/plot_pres0.py: the x-t field and   *)
(* the series of the pressure at idx 0, both read from the snapshot files  *)
(* of the build directory.                                                 *)
(*                                                                         *)
(* Snapshot files.  The three paths are in lexicographic order of their    *)
(* names.  Every file has the header time,idx,rho,vel,pres; a data row is  *)
(* its time, its idx (<<i>> for text int() accepts, <<>> for other text)   *)
(* and its three values.                                                   *)
(***************************************************************************)
Row(t, i, v) == [time |-> t, idx |-> <<i>>, rho |-> v, vel |-> v + 10, pres |-> v + 20]

\* a row whose idx is not the text of an integer
OddRow(t, v) == [time |-> t, idx |-> None, rho |-> v, vel |-> v + 10, pres |-> v + 20]

\* the data rows a snapshot file may hold
Contents ==
    {<<Row(2, 0, 5), Row(2, 1, 6)>>,
     <<Row(1, 1, 7), Row(1, 0, 8)>>,
     <<Row(3, 1, 4), Row(3, 2, 9)>>,
     <<Row(0, 0, 3), Row(3, 0, 4)>>,
     <<OddRow(3, 0), Row(3, 0, 2), Row(3, 1, 1)>>,
     <<>>}

CsvFiles == {[mtime |-> m, rows |-> c] : m \in 1..MaxClock, c \in Contents}

CsvGlob == {p \in Paths : csv_dir[p] # None}

\* plot_field_xt.list_snapshot_files: the lists it can return, the paths
\* in ascending mtime, equal mtime in the order of glob, which is any order
list_snapshot_files_by_mtime ==
    {l \in Listings(CsvGlob) :
        \A i, j \in 1..Len(l) : i < j => csv_dir[l[i]][1].mtime <= csv_dir[l[j]][1].mtime}

\* plot_pres0.list_snapshot_files: the paths in lexicographic order
RECURSIVE AscendingFrom(_)
AscendingFrom(p) ==
    IF p > Cardinality(Paths) THEN <<>>
    ELSE (IF csv_dir[p] # None THEN <<p>> ELSE <<>>) \o AscendingFrom(p + 1)

list_snapshot_files_by_name == AscendingFrom(1)

\* the results np.argsort(idx_arr) can give: the permutations that put the
\* idx in ascending order, the order of equal idx being unspecified
argsort_idx(rs) ==
    {o \in Listings(1..Len(rs)) :
        \A i, j \in 1..Len(rs) : i < j => rs[o[i]].idx[1] <= rs[o[j]].idx[1]}

\* what read_snapshot can return or raise for a file with the rows rs
read_snapshot(rs) ==
    IF \E k \in 1..Len(rs) : rs[k].idx = None THEN {[exc |-> "ValueError"]}
    ELSE IF rs = <<>> THEN {[exc |-> "ValueError"]}
    ELSE {[exc |-> NoException,
           t |-> rs[Len(rs)].time,
           idx |-> [k \in 1..Len(rs) |-> rs[o[k]].idx[1]],
           rho |-> [k \in 1..Len(rs) |-> rs[o[k]].rho],
           vel |-> [k \in 1..Len(rs) |-> rs[o[k]].vel],
           pres |-> [k \in 1..Len(rs) |-> rs[o[k]].pres]] : o \in argsort_idx(rs)}

Fields == {"rho", "vel", "pres"}

FieldOf(snap, field) ==
    IF field = "rho" THEN snap.rho ELSE IF field = "vel" THEN snap.vel ELSE snap.pres

\* the body of "for path in files:" of build_xt_field once the file is read
BuildStep(acc, snap, field) ==
    IF snap.exc # NoException THEN [acc EXCEPT !.exc = snap.exc]
    ELSE IF acc.x_idx_ref # None /\ snap.idx # acc.x_idx_ref[1]
    THEN [acc EXCEPT !.exc = "SystemExit"]
    ELSE IF field \notin Fields
    THEN [acc EXCEPT !.exc = "ValueError", !.x_idx_ref = <<snap.idx>>]
    ELSE [exc |-> NoException,
          x_idx_ref |-> IF acc.x_idx_ref = None THEN <<snap.idx>> ELSE acc.x_idx_ref,
          snapshots |-> Append(acc.snapshots, <<snap.t, FieldOf(snap, field)>>)]

\* the loop over files from file k on: the states it can end in
RECURSIVE BuildLoop(_, _, _, _)
BuildLoop(fs, k, field, acc) ==
    IF k > Len(fs) \/ acc.exc # NoException THEN {acc}
    ELSE UNION {BuildLoop(fs, k + 1, field, BuildStep(acc, snap, field)) :
                   snap \in read_snapshot(csv_dir[fs[k]][1].rows)}

\* the index of the first item of least key of a nonempty list of <<key, _>>
FirstLeast(items) ==
    CHOOSE i \in 1..Len(items) :
        /\ \A j \in 1..Len(items) : items[i][1] <= items[j][1]
        /\ \A j \in 1..(i - 1) : items[j][1] # items[i][1]

\* list.sort(key=lambda item: item[0]): ascending key, stable
RECURSIVE SortByKey(_)
SortByKey(items) ==
    IF items = <<>> THEN <<>>
    ELSE <<items[FirstLeast(items)]>>
         \o SortByKey([k \in 1..(Len(items) - 1) |->
                          IF k < FirstLeast(items) THEN items[k] ELSE items[k + 1]])

\* a faulty variant: the snapshots left in the order of the files
SortSnapshots_Not(items) == items

\* snapshots.sort(key=lambda item: item[0])
SortSnapshots(items) == SortByKey(items)

\* times, x_idx, F of build_xt_field from the state the loop ended in
BuildResult(acc) ==
    IF acc.exc # NoException THEN [exc |-> acc.exc]
    ELSE [exc |-> NoException,
          times |-> [k \in 1..Len(acc.snapshots) |-> SortSnapshots(acc.snapshots)[k][1]],
          x_idx |-> acc.x_idx_ref[1],
          F |-> [k \in 1..Len(acc.snapshots) |-> SortSnapshots(acc.snapshots)[k][2]]]

\* what build_xt_field(build_dir, field, NX) can return or raise
build_xt_field(field) ==
    IF CsvGlob = {} THEN {[exc |-> "SystemExit"]}
    ELSE {BuildResult(acc) :
             acc \in UNION {BuildLoop(fs, 1, field,
                                      [exc |-> NoException, x_idx_ref |-> None,
                                       snapshots |-> <<>>]) :
                               fs \in list_snapshot_files_by_mtime}}

\* a faulty variant: the first row of the file, whatever its idx
read_pres0_from_csv_FirstRow(rs, k) ==
    IF k > Len(rs) THEN None ELSE <<rs[k].time, rs[k].pres>>

\* read_pres0_from_csv from row k on: <<time, pres>> of the first row with
\* idx == 0, rows whose idx is no integer skipped; None without such a row
RECURSIVE read_pres0_from_csv(_, _)
read_pres0_from_csv(rs, k) ==
    IF k > Len(rs) THEN None
    ELSE IF rs[k].idx = <<0>> THEN <<rs[k].time, rs[k].pres>>
    ELSE read_pres0_from_csv(rs, k + 1)

\* ts and ps of collect_series, as the list of pairs zip(ts, ps), after the
\* first k files
RECURSIVE CollectLoop(_, _)
CollectLoop(fs, k) ==
    IF k = 0 THEN <<>>
    ELSE IF read_pres0_from_csv(csv_dir[fs[k]][1].rows, 1) = None
         THEN CollectLoop(fs, k - 1)
         ELSE Append(CollectLoop(fs, k - 1),
                     read_pres0_from_csv(csv_dir[fs[k]][1].rows, 1))

\* the results np.argsort(arr[:, 0]) can give
argsort_time(pairs) ==
    {o \in Listings(1..Len(pairs)) :
        \A i, j \in 1..Len(pairs) : i < j => pairs[o[i]][1] <= pairs[o[j]][1]}

\* what collect_series can return or raise once ts and ps are collected
CollectResult(pairs) ==
    IF pairs = <<>> THEN {[exc |-> "SystemExit"]}
    ELSE {[exc |-> NoException,
           t |-> [k \in 1..Len(pairs) |-> pairs[o[k]][1]],
           p |-> [k \in 1..Len(pairs) |-> pairs[o[k]][2]]] : o \in argsort_time(pairs)}

collect_series ==
    CollectResult(CollectLoop(list_snapshot_files_by_name,
                              Len(list_snapshot_files_by_name)))

\* the build directory the scripts find: any set of snapshot files
ScriptsInit ==
    /\ csv_dir \in [Paths -> {None} \cup {<<f>> : f \in CsvFiles}]
    /\ csv_op = "start"
    /\ csv_field = ""
    /\ csv_ret = [exc |-> NoException]
    /\ FourierIdle
    /\ VisIdle

\* times, x_idx, F = build_xt_field(args.build_dir, args.field, NX)
Call_build_xt_field ==
    /\ \E field \in Fields \cup {"temp"} :
          /\ csv_field' = field
          /\ csv_ret' \in build_xt_field(field)
    /\ csv_op' = "build_xt_field"
    /\ UNCHANGED csv_dir
    /\ UNCHANGED <<fourier_vars, vis_vars>>

\* t, p = collect_series(args.build_dir)
Call_collect_series ==
    /\ csv_ret' \in collect_series
    /\ csv_op' = "collect_series"
    /\ csv_field' = ""
    /\ UNCHANGED csv_dir
    /\ UNCHANGED <<fourier_vars, vis_vars>>

ScriptsNext == Call_build_xt_field \/ Call_collect_series

SpecScripts == ScriptsInit /\ [][ScriptsNext]_vars


\* the data rows of the snapshot file at path p
Spec_Rows(p) == csv_dir[p][1].rows

\* a snapshot file read_snapshot accepts: data rows, every idx an integer
Spec_Readable(rs) == rs # <<>> /\ \A k \in 1..Len(rs) : rs[k].idx # None

\* two snapshots with the same idx array once each is put in ascending idx
Spec_SameSampling(rs1, rs2) ==
    /\ Len(rs1) = Len(rs2)
    /\ \E o \in Listings(1..Len(rs1)) : \A k \in 1..Len(rs1) : rs1[k].idx = rs2[o[k]].idx

Spec_Field(row, field) ==
    IF field = "rho" THEN row.rho ELSE IF field = "vel" THEN row.vel ELSE row.pres

\* values is the field of the rows rs, and x_idx their idx, column by column
Spec_IsFieldOf(values, x_idx, rs, field) ==
    /\ Len(values) = Len(rs) /\ Len(x_idx) = Len(rs)
    /\ \E o \in Listings(1..Len(rs)) :
          \A c \in 1..Len(rs) :
              /\ rs[o[c]].idx = <<x_idx[c]>>
              /\ Spec_Field(rs[o[c]], field) = values[c]

Spec_NonDecreasing(xs) == \A i, j \in 1..Len(xs) : i < j => xs[i] <= xs[j]

(***************************************************************************)
(* C18.  When build_xt_field returns, times is in non-decreasing order, F  *)
(* has exactly one row per snapshot file, row k of F is the requested      *)
(* field of a snapshot whose time (that of its last row) is times[k], its  *)
(* columns in ascending idx, and every snapshot has the idx array x_idx.   *)
(* It never returns when two snapshots differ in their idx arrays, and     *)
(* raises SystemExit then if every file is readable and the field is one   *)
(* of rho, vel, pres; it raises SystemExit when there is no snapshot file. *)
(***************************************************************************)
C18_XTField ==
    csv_op = "build_xt_field" =>
        /\ CsvGlob = {} => csv_ret.exc = "SystemExit"
        /\ (\E p, q \in CsvGlob :
               /\ Spec_Readable(Spec_Rows(p)) /\ Spec_Readable(Spec_Rows(q))
               /\ ~Spec_SameSampling(Spec_Rows(p), Spec_Rows(q))) =>
              /\ csv_ret.exc # NoException
              /\ (csv_field \in Fields /\ \A p \in CsvGlob : Spec_Readable(Spec_Rows(p)))
                     => csv_ret.exc = "SystemExit"
        /\ csv_ret.exc = NoException =>
              /\ Len(csv_ret.times) = Cardinality(CsvGlob)
              /\ Len(csv_ret.F) = Cardinality(CsvGlob)
              /\ Spec_NonDecreasing(csv_ret.times)
              /\ Spec_NonDecreasing(csv_ret.x_idx)
              /\ \E l \in Listings(CsvGlob) :
                    \A k \in 1..Len(l) :
                        /\ csv_ret.times[k] = Spec_Rows(l[k])[Len(Spec_Rows(l[k]))].time
                        /\ Spec_IsFieldOf(csv_ret.F[k], csv_ret.x_idx,
                                          Spec_Rows(l[k]), csv_field)

C18_Witness ==
    /\ csv_op = "build_xt_field" /\ csv_ret.exc = NoException /\ csv_field = "vel"
    /\ Len(csv_ret.F) = 3
    /\ csv_ret.times = <<1, 2, 2>>
    /\ csv_ret.F[1] = <<18, 17>>
    /\ csv_ret.x_idx = <<0, 1>>
    /\ csv_dir[1][1].mtime < csv_dir[2][1].mtime
    /\ Len(Spec_Rows(2)) = 2 /\ Spec_Rows(2)[1].idx = <<1>>

\* the snapshot files with a row whose idx is 0
Spec_WithIdx0 ==
    {p \in CsvGlob : \E k \in 1..Len(Spec_Rows(p)) : Spec_Rows(p)[k].idx = <<0>>}

\* the first row of rs whose idx is 0
Spec_FirstIdx0(rs) ==
    rs[CHOOSE k \in 1..Len(rs) :
           rs[k].idx = <<0>> /\ \A j \in 1..(k - 1) : rs[j].idx # <<0>>]

(***************************************************************************)
(* C19.  collect_series returns two arrays t and p of equal length with    *)
(* exactly one entry per snapshot file that has a row with idx == 0, taken *)
(* from the first such row of the file: t is in non-decreasing order and   *)
(* p[k] is the pres of the row t[k] is the time of.  It raises SystemExit  *)
(* exactly when no file has such a row.                                    *)
(***************************************************************************)
C19_Pres0Series ==
    csv_op = "collect_series" =>
        /\ csv_ret.exc \in {NoException, "SystemExit"}
        /\ csv_ret.exc = "SystemExit" <=> Spec_WithIdx0 = {}
        /\ csv_ret.exc = NoException =>
              /\ Len(csv_ret.t) = Cardinality(Spec_WithIdx0)
              /\ Len(csv_ret.p) = Len(csv_ret.t)
              /\ Spec_NonDecreasing(csv_ret.t)
              /\ \E l \in Listings(Spec_WithIdx0) :
                    \A k \in 1..Len(l) :
                        /\ csv_ret.t[k] = Spec_FirstIdx0(Spec_Rows(l[k])).time
                        /\ csv_ret.p[k] = Spec_FirstIdx0(Spec_Rows(l[k])).pres

C19_Witness ==
    /\ csv_op = "collect_series" /\ csv_ret.exc = NoException
    /\ Cardinality(CsvGlob) = 3
    /\ csv_ret.t = <<0, 3>> /\ csv_ret.p = <<23, 22>>
    /\ Len(Spec_Rows(1)) = 3 /\ Spec_Rows(1)[1].idx = None
    /\ Spec_Rows(3) = <<>>

=============================================================================
